---- MODULE Spec2Model ----
(***************************************************************************)
(* Model of the BCRA scrapers (bcra_scraper): the base driver              *)
(* BCRAScraper.run and its two drivers BCRASMLScraper and BCRATCEScraper.  *)
(*                                                                         *)
(* Representation.                                                         *)
(*  - A Python str is a sequence of one-character strings, so that strip,  *)
(*    replace and Decimal() are computed and not assumed.                  *)
(*  - A dict key is the list of pieces the key splits into at "_"          *)
(*    ('tc_ars_dolar_galicia_...' is <<"tc","ars","dolar","galicia",..>>): *)
(*    an f-string joins pieces, str.split("_") returns them.               *)
(*  - A dict is a sequence of [k, v] entries in insertion order.           *)
(*  - A value is a record [kind, text, day]; kind tells a str from a       *)
(*    Decimal, a date object, a date string and None.                      *)
(*  - A date is the number of its day inside the modelled window.          *)
(***************************************************************************)
EXTENDS Integers, Sequences, FiniteSets, TLC

\* ---------------------------------------------------------------- bounds
MaxDay == 2
MaxUnits == 4
MaxTries == 2
MaxCreate == 2

Days == 1..MaxDay

\* ---------------------------------------------------------------- values
StrV(t) == [kind |-> "str", text |-> t, day |-> 0]
DecimalV(t) == [kind |-> "Decimal", text |-> t, day |-> 0]
NoneV == [kind |-> "None", text |-> <<>>, day |-> 0]
DmyStr(d) == [kind |-> "str_dmy", text |-> <<>>, day |-> d]
IsoStr(d) == [kind |-> "str_iso", text |-> <<>>, day |-> d]
DateObj(d) == [kind |-> "date", text |-> <<>>, day |-> d]
EmptyStr == StrV(<<>>)

\* ---------------------------------------------------------------- dicts
\* A sequence given by a rule, with its elements computed once
Tuple(f) == f \o <<>>

E(k, v) == [k |-> k, v |-> v]
DictHas(d, k) == \E i \in 1..Len(d) : d[i].k = k
DictGet(d, k) == d[CHOOSE i \in 1..Len(d) : d[i].k = k].v
DictSet(d, k, v) ==
    IF DictHas(d, k)
    THEN Tuple([i \in 1..Len(d) |-> IF d[i].k = k THEN E(k, v) ELSE d[i]])
    ELSE Append(d, E(k, v))
DictKeys(d) == Tuple([i \in 1..Len(d) |-> d[i].k])

\* The concatenation of the sequences ss[lo..hi]
RECURSIVE ConcatRange(_, _, _)
ConcatRange(ss, lo, hi) ==
    IF lo > hi THEN <<>>
    ELSE IF lo = hi THEN ss[lo]
    ELSE LET mid == (lo + hi) \div 2
         IN  ConcatRange(ss, lo, mid) \o ConcatRange(ss, mid + 1, hi)
Concat(ss) == ConcatRange(ss, 1, Len(ss))

\* d.update(other), or the assignments d[k] = v for the entries of other in
\* order: a key of d keeps its place and takes the last value given to it, a
\* new key is appended where it is first assigned.
DictUpdate(d, other) ==
    LET last(k) == other[CHOOSE j \in 1..Len(other) :
                            /\ other[j].k = k
                            /\ \A m \in (j + 1)..Len(other) : other[m].k # k].v
    IN  Tuple([i \in 1..Len(d) |->
                IF DictHas(other, d[i].k) THEN E(d[i].k, last(d[i].k)) ELSE d[i]])
        \o Concat([j \in 1..Len(other) |->
                IF \/ DictHas(d, other[j].k)
                   \/ \E m \in 1..(j - 1) : other[m].k = other[j].k
                THEN <<>>
                ELSE <<E(other[j].k, last(other[j].k))>>])

Reverse(s) == Tuple([i \in 1..Len(s) |-> s[Len(s) + 1 - i]])

\* ---------------------------------------------------------------- text
DigitChars == {"0", "1", "2", "3", "4", "5", "6", "7", "8", "9"}
DigitOf(n) == <<"0", "1", "2", "3", "4", "5", "6", "7", "8", "9">>[n + 1]

\* str.strip(): drops the leading and the trailing blanks.
Strip(t) ==
    LET solid == {i \in 1..Len(t) : t[i] # " "}
    IN  IF solid = {} THEN <<>>
        ELSE SubSeq(t, CHOOSE i \in solid : \A j \in solid : i <= j,
                       CHOOSE i \in solid : \A j \in solid : j <= i)

\* str.replace(',', '.')
ReplaceComma(t) == Tuple([i \in 1..Len(t) |-> IF t[i] = "," THEN "." ELSE t[i]])

\* Decimal(s) accepts digits with at most one point and at least one digit;
\* anything else raises decimal.InvalidOperation.
DecimalAccepts(t) ==
    /\ \A i \in 1..Len(t) : t[i] \in DigitChars \cup {"."}
    /\ Cardinality({i \in 1..Len(t) : t[i] = "."}) <= 1
    /\ \E i \in 1..Len(t) : t[i] \in DigitChars

\* ---------------------------------------------------------------- pages
\* The text of column i of a body row: a blank-padded number whose last two
\* digits are the column, an all-dashes placeholder, or a blank cell.
CellText(base, i) ==
    IF base = <<>> THEN <<" ">>
    ELSE IF base[1] = "-" THEN <<" ">> \o base \o <<" ">>
    ELSE <<" ">> \o base \o <<DigitOf(i \div 10), DigitOf(i % 10)>> \o <<" ">>

Page(shape, rows, base) == [shape |-> shape, rows |-> rows, base |-> base]
\* page_source is '' / {} when nothing was selected
NoContent == Page("empty", {}, <<>>)

BaseA == <<"1", ",">>
BaseB == <<"2", ",">>
BaseDash == <<"-", "-">>
BaseThousands == <<"1", ".", "2", ",">>

\* ---------------------------------------------------------------- schema
IndiceTiempo == <<"indice", "tiempo">>
CoinKey == <<"coin">>

SMLFamilies == <<"peso_uruguayo", "real">>
TCEFamilies == <<"dolar", "euro">>

Families(drv) == IF drv = "sml" THEN SMLFamilies ELSE TCEFamilies

SMLTypes(c) ==
    IF c = "peso_uruguayo"
    THEN << <<"Tipo de cambio de Referencia">>,
            <<"Tipo de cambio URINUSCA">>,
            <<"Tipo de cambio SML Peso Uruguayo">>,
            <<"Tipo de cambio SML Uruguayo Peso">> >>
    ELSE << <<"Tipo de cambio de Referencia">>,
            <<"Tipo de cambio PTAX">>,
            <<"Tipo de cambio SML Peso Real">>,
            <<"Tipo de cambio SML Real Peso">> >>

\* The twelve TCE fields in the order get_parsed inserts them, each with the
\* column parse_content reads it from.
TCEFields ==
    << [channel |-> "mostrador",   flow |-> "compra", hour |-> "11hs", col |-> 1],
       [channel |-> "mostrador",   flow |-> "compra", hour |-> "13hs", col |-> 5],
       [channel |-> "mostrador",   flow |-> "compra", hour |-> "15hs", col |-> 9],
       [channel |-> "electronico", flow |-> "compra", hour |-> "11hs", col |-> 3],
       [channel |-> "electronico", flow |-> "compra", hour |-> "13hs", col |-> 7],
       [channel |-> "electronico", flow |-> "compra", hour |-> "15hs", col |-> 11],
       [channel |-> "mostrador",   flow |-> "venta",  hour |-> "11hs", col |-> 2],
       [channel |-> "mostrador",   flow |-> "venta",  hour |-> "13hs", col |-> 6],
       [channel |-> "mostrador",   flow |-> "venta",  hour |-> "15hs", col |-> 10],
       [channel |-> "electronico", flow |-> "venta",  hour |-> "11hs", col |-> 4],
       [channel |-> "electronico", flow |-> "venta",  hour |-> "13hs", col |-> 8],
       [channel |-> "electronico", flow |-> "venta",  hour |-> "15hs", col |-> 12] >>

\* f'tc_ars_{coin}_{k}_{channel}_{flow}_{hour}'
TCEFieldName(coin, k, f) ==
    <<"tc", "ars", coin>> \o k \o <<f.channel, f.flow, f.hour>>

\* ---------------------------------------------------------------- SML parsing
\* The texts of the th cells 1..4 of a header row of the page: the types of
\* the coin, or another text in the second cell
HeaderTexts(content, coin) ==
    IF content.shape = "otherhead"
    THEN <<SMLTypes(coin)[1], <<"Otro encabezado">>, SMLTypes(coin)[3],
           SMLTypes(coin)[4]>>
    ELSE SMLTypes(coin)

\* The number of tr rows of the thead
HeadRows(content) == IF content.shape = "twoheadrows" THEN 2 ELSE 1

\* One dict of BCRASMLScraper.parse_content for the date d.
SMLParsedDay(content, coin, d) ==
    LET types == HeaderTexts(content, coin)
        cell(i) == IF d \in content.rows
                   THEN StrV(Strip(CellText(content.base, i)))
                   ELSE EmptyStr
    IN  << E(CoinKey, StrV(<<coin>>)),
           E(IndiceTiempo, DmyStr(d)),
           E(types[1], cell(1)),
           E(types[2], cell(2)),
           E(types[3], cell(3)),
           E(types[4], cell(4)) >>

\* BCRASMLScraper.parse_content: [] without table, thead, tbody or header
\* row, and [] as well when anything raises (the bare except).
SMLParseContentRowsWithoutBody(content, coin, start_date, end_date) ==
    LET day_count == (end_date - start_date) + 1
    IN  IF content.shape \in {"empty", "notable", "nohead"} THEN <<>>
        ELSE IF content.shape = "noheadrow" THEN <<>>
        ELSE IF content.shape = "shorthead" THEN <<>>
        ELSE IF /\ content.shape = "shortrow"
                /\ \E d \in start_date..end_date : d \in content.rows THEN <<>>
        ELSE Concat([n \in 1..day_count |->
                 [h \in 1..HeadRows(content) |->
                     SMLParsedDay([content EXCEPT !.rows = {}], coin,
                                  start_date + (n - 1))]])
SMLParseContent(content, coin, start_date, end_date) ==
    LET day_count == (end_date - start_date) + 1
    IN  IF content.shape \in {"empty", "notable", "nohead", "nobody"} THEN <<>>
        ELSE IF content.shape = "noheadrow" THEN <<>>
        ELSE IF content.shape = "shorthead" THEN <<>>
        ELSE IF /\ content.shape = "shortrow"
                /\ \E d \in start_date..end_date : d \in content.rows THEN <<>>
        ELSE Concat([n \in 1..day_count |->
                 [h \in 1..HeadRows(content) |->
                     SMLParsedDay(content, coin, start_date + (n - 1))]])

\* dst[k] = src[k] for every k of keys, in order
CopyKeys(dst, src, keys) ==
    DictUpdate(dst, Tuple([i \in 1..Len(keys) |-> E(keys[i], DictGet(src, keys[i]))]))

\* The loop of parse_contents over the parsed dicts, for one family: rows are
\* keyed by p['indice_tiempo']; every coin other than peso_uruguayo is real.
RECURSIVE SMLGroup(_, _, _)
SMLGroup(ps, fam, acc) ==
    IF ps = <<>> THEN acc
    ELSE LET p == Head(ps)
             pf == IF DictGet(p, CoinKey) = StrV(<<"peso_uruguayo">>)
                   THEN "peso_uruguayo" ELSE "real"
             key == DictGet(p, IndiceTiempo)
             old == IF DictHas(acc, key) THEN DictGet(acc, key) ELSE <<>>
         IN  IF pf # fam THEN SMLGroup(Tail(ps), fam, acc)
             ELSE SMLGroup(Tail(ps), fam,
                           DictSet(acc, key, CopyKeys(old, p, SMLTypes(fam))))

\* parse_contents reads p[type] for the four types of the family of p: a dict
\* without one of them raises KeyError
SMLParseContentsRaises(contents, start_date, end_date) ==
    \E i \in 1..Len(contents) :
        \E ps \in {SMLParseContent(contents[i].v, contents[i].k,
                                   start_date, end_date)} :
            \E n \in 1..Len(ps) :
                LET fam == IF DictGet(ps[n], CoinKey) = StrV(<<"peso_uruguayo">>)
                           THEN "peso_uruguayo" ELSE "real"
                IN  \E t \in 1..Len(SMLTypes(fam)) : ~DictHas(ps[n], SMLTypes(fam)[t])

\* BCRASMLScraper.parse_contents
SMLParseContents(contents, start_date, end_date) ==
    LET ps == Concat([i \in 1..Len(contents) |->
                        SMLParseContent(contents[i].v, contents[i].k,
                                        start_date, end_date)])
        rowsOf(fam) ==
            LET g == SMLGroup(ps, fam, <<>>)
            IN  Tuple([i \in 1..Len(g) |-> DictSet(g[i].v, IndiceTiempo, g[i].k)])
    IN  ("peso_uruguayo" :> rowsOf("peso_uruguayo")) @@ ("real" :> rowsOf("real"))

\* ---------------------------------------------------------------- normalizer
\* date.fromisoformat on 'DD/MM/YYYY' reassembled, or on the ISO string
PreprocessDate(v) == DateObj(v.day)

\* BCRASMLScraper.preprocess_rows: a truthy str goes through Decimal, a falsy
\* value is kept as it is.
SMLValueRaises(v) ==
    v.kind = "str" /\ v.text # <<>> /\ ~DecimalAccepts(ReplaceComma(v.text))
SMLPreprocessValue(v) ==
    IF v.kind = "str" /\ v.text # <<>> THEN DecimalV(ReplaceComma(v.text)) ELSE v

\* BCRATCEScraper.preprocess_rows: '' becomes None, another str goes through
\* Decimal.
TCEValueRaises(v) ==
    v.kind = "str" /\ v.text # <<>> /\ ~DecimalAccepts(ReplaceComma(v.text))
TCEPreprocessValue(v) ==
    IF v = EmptyStr THEN NoneV
    ELSE IF v.kind = "str" THEN DecimalV(ReplaceComma(v.text)) ELSE v

ValueRaises(drv, v) == IF drv = "sml" THEN SMLValueRaises(v) ELSE TCEValueRaises(v)
PreprocessValue(drv, v) ==
    IF drv = "sml" THEN SMLPreprocessValue(v) ELSE TCEPreprocessValue(v)

PreprocessRow(drv, row) ==
    Tuple([i \in 1..Len(row) |->
        IF row[i].k = IndiceTiempo THEN E(row[i].k, PreprocessDate(row[i].v))
        ELSE E(row[i].k, PreprocessValue(drv, row[i].v))])

\* preprocess_rows of the driver
PreprocessRows(drv, rows) ==
    Tuple([i \in 1..Len(rows) |-> PreprocessRow(drv, rows[i])])

RowsRaise(drv, rows) ==
    \E i \in 1..Len(rows) : \E j \in 1..Len(rows[i]) :
        rows[i][j].k # IndiceTiempo /\ ValueRaises(drv, rows[i][j].v)

\* _preprocess_rows of the driver: both families
PreprocessAll(drv, parsed) ==
    LET f1 == Families(drv)[1]
        f2 == Families(drv)[2]
    IN  (f1 :> PreprocessRows(drv, parsed[f1])) @@ (f2 :> PreprocessRows(drv, parsed[f2]))
PreprocessRaises(drv, parsed) == \E fam \in DOMAIN parsed : RowsRaise(drv, parsed[fam])

\* ---------------------------------------------------------------- TCE parsing
\* BCRATCEScraper.get_parsed: the date and twelve '' fields per entity
RECURSIVE GetParsedFrom(_, _, _, _)
GetParsedFrom(acc, day, coin, ents) ==
    IF ents = <<>> THEN acc
    ELSE LET k == Head(ents)
             withDay == DictSet(acc, IndiceTiempo, day)
             blank == Tuple([i \in 1..Len(TCEFields) |->
                          E(TCEFieldName(coin, k, TCEFields[i]), EmptyStr)])
         IN  GetParsedFrom(DictUpdate(withDay, blank), day, coin, Tail(ents))

get_parsed(day, coin, ents) == GetParsedFrom(<<>>, day, coin, ents)

\* The number of td cells of a matched body row
PageCols(content) == IF content.shape = "shortrow" THEN 6 ELSE 13

\* The twelve assignments of parse_content for the entity k, in order; cols[i]
\* raises IndexError when the row has no cell i.
TCESetFields(parsed, coin, k, content, fs) ==
    LET bad == {i \in 1..Len(fs) : fs[i].col >= PageCols(content)}
        done == IF bad = {} THEN Len(fs)
                ELSE (CHOOSE i \in bad : \A j \in bad : i <= j) - 1
    IN  [d |-> DictUpdate(parsed,
                   Tuple([i \in 1..done |->
                       E(TCEFieldName(coin, k, fs[i]),
                         StrV(Strip(CellText(content.base, fs[i].col))))])),
         raised |-> bad # {}]

\* The loop of parse_content over the entities: parsed is updated in place,
\* result.update(parsed) follows every entity.
RECURSIVE TCEEntityLoop(_, _, _, _, _, _)
TCEEntityLoop(parsed, result, single_date, coin, content, ents) ==
    IF ents = <<>> THEN [parsed |-> parsed, result |-> result, raised |-> FALSE]
    ELSE LET k == Head(ents)
         IN  IF k \in content.rows
             THEN LET r == TCESetFields(DictSet(parsed, IndiceTiempo, single_date),
                                        coin, k, content, TCEFields)
                  IN  IF r.raised
                      THEN [parsed |-> r.d, result |-> result, raised |-> TRUE]
                      ELSE TCEEntityLoop(r.d, DictUpdate(result, r.d), single_date,
                                         coin, content, Tail(ents))
             ELSE TCEEntityLoop(parsed, DictUpdate(result, parsed), single_date,
                                coin, content, Tail(ents))

\* BCRATCEScraper.parse_content: always a one-element list
TCEParseContentEmptyWithoutTable(content, single_date, coin, ents) ==
    LET parsed == get_parsed(single_date, coin, ents)
    IN  IF content.shape \in {"empty", "notable", "nobody"} THEN <<>>
        ELSE LET r == TCEEntityLoop(parsed, <<>>, single_date, coin, content, ents)
             IN  IF r.raised THEN <<r.parsed>> ELSE <<r.result>>
TCEParseContent(content, single_date, coin, ents) ==
    LET parsed == get_parsed(single_date, coin, ents)
    IN  IF content.shape \in {"empty", "notable", "nobody"} THEN <<parsed>>
        ELSE LET r == TCEEntityLoop(parsed, <<>>, single_date, coin, content, ents)
             IN  IF r.raised THEN <<r.parsed>> ELSE <<r.result>>

\* BCRATCEScraper.parse_contents: a content {} of a unit that fetched nothing
\* has no item and adds no row.
TCEParseContents(contents, ents) ==
    LET rowsOf(fam) ==
            Concat([i \in 1..Len(contents) |->
                IF contents[i].filled /\ contents[i].k = fam
                THEN TCEParseContent(contents[i].v, IsoStr(contents[i].day),
                                     fam, ents)
                ELSE <<>>])
    IN  ("dolar" :> rowsOf("dolar")) @@ ("euro" :> rowsOf("euro"))

\* ---------------------------------------------------------------- flatten
\* BCRASMLScraper.get_intermediate_panel_data_from_parsed
SMLRowPointsSkippingMissing(c, r) ==
    LET types == SMLTypes(c)
    IN  Concat([i \in 1..Len(types) |->
            IF DictHas(r, types[i]) /\ DictGet(r, types[i]).kind = "Decimal"
            THEN << [indice_tiempo |-> DictGet(r, IndiceTiempo),
                     coin |-> c,
                     type |-> types[i],
                     value |-> DictGet(r, types[i])] >>
            ELSE <<>>])
SMLRowPoints(c, r) ==
    LET types == SMLTypes(c)
    IN  Concat([i \in 1..Len(types) |->
            IF DictHas(r, types[i])
            THEN << [indice_tiempo |-> DictGet(r, IndiceTiempo),
                     coin |-> c,
                     type |-> types[i],
                     value |-> DictGet(r, types[i])] >>
            ELSE <<>>])

SMLFlatten(parsed, coinKeys) ==
    Reverse(Concat([ci \in 1..Len(coinKeys) |->
        Concat([ri \in 1..Len(parsed[coinKeys[ci]]) |->
            SMLRowPoints(coinKeys[ci], parsed[coinKeys[ci]][ri])])]))

\* BCRATCEScraper.get_intermediate_panel_data_from_parsed, for one row p: the
\* key is split at "_" and the pieces 2..6 are taken as coin, entity, channel,
\* flow and hour.
\* 'indice_tiempo' is the first key of every row get_parsed builds, so time
\* is the row's own date when its other keys are visited.
TCERowPoints(p, fam) ==
    LET time == DictGet(p, IndiceTiempo)
    IN  Concat([i \in 1..Len(p) |->
            LET result == p[i].k
            IN  IF result = IndiceTiempo THEN <<>>
                ELSE IF result[3] = fam
                THEN << [indice_tiempo |-> time,
                         coin |-> result[3],
                         entity |-> result[4],
                         channel |-> result[5],
                         flow |-> result[6],
                         hour |-> result[7],
                         value |-> p[i].v] >>
                ELSE <<>>])

TCEFlatten(rows) ==
    LET of(fam) == Concat([i \in 1..Len(rows) |-> TCERowPoints(rows[i], fam)])
    IN  Reverse(of("dolar") \o of("euro"))

\* BCRATCEScraper.save_intermediate_panel joins the two families first
Flatten(drv, parsed, coinKeys) ==
    IF drv = "sml" THEN SMLFlatten(parsed, coinKeys)
    ELSE TCEFlatten(parsed["dolar"] \o parsed["euro"])

\* ---------------------------------------------------------------- panel file
\* csv.DictWriter writes str(value): a Decimal as its digits, None as '', a
\* date as its ISO form.
CsvCell(v) ==
    IF v.kind = "Decimal" THEN StrV(v.text)
    ELSE IF v.kind = "None" THEN EmptyStr
    ELSE IF v.kind = "date" THEN IsoStr(v.day)
    ELSE v

CsvRow(drv, pt) ==
    IF drv = "sml"
    THEN [indice_tiempo |-> CsvCell(pt.indice_tiempo), coin |-> pt.coin,
          type |-> pt.type, value |-> CsvCell(pt.value)]
    ELSE [indice_tiempo |-> CsvCell(pt.indice_tiempo), coin |-> pt.coin,
          entity |-> pt.entity, channel |-> pt.channel, flow |-> pt.flow,
          hour |-> pt.hour, value |-> CsvCell(pt.value)]

\* write_intermediate_panel: the rows below the header line
CsvRows(drv, points) == Tuple([i \in 1..Len(points) |-> CsvRow(drv, points[i])])

\* The file name read_intermediate_panel_dataframe opens
PanelFileRead(drv) ==
    IF drv = "sml" THEN "sml-intermediate-panel.csv" ELSE "tce-intermediate-panel.csv"

\* ---------------------------------------------------------------- pivot
\* df.loc[mask][['value']]: the rows of the panel at which the boolean mask
\* is true, as (index, value) pairs in file order
Series(df, mask) ==
    Concat([i \in 1..Len(df) |->
        IF mask[i] THEN << [d |-> df[i].indice_tiempo, v |-> df[i].value] >>
        ELSE <<>>])

\* A frame of one value column as rows [d, vals]
Frame(df) == Tuple([i \in 1..Len(df) |-> [d |-> df[i].d, vals |-> <<df[i].v>>]])

\* df1.merge(df2, left_on='indice_tiempo', right_on='indice_tiempo'): the
\* inner join on the index, in the order of the left keys; every pair of rows
\* of the same date gives a row.
Merge(df1, df2) ==
    Concat([i \in 1..Len(df1) |->
        Concat([j \in 1..Len(df2) |->
            IF df1[i].d = df2[j].d
            THEN << [d |-> df1[i].d, vals |-> df1[i].vals \o df2[j].vals] >>
            ELSE <<>>])])

\* reduce() over the frames lo..hi of dfs. reduce folds from the left; the
\* join is on the one shared index, so rows and their order do not depend on
\* how the merges are grouped, and the fold is computed by halves.
RECURSIVE ReduceMerge(_, _, _)
ReduceMerge(dfs, lo, hi) ==
    IF lo = hi THEN Frame(dfs[lo])
    ELSE LET mid == (lo + hi) \div 2
         IN  Merge(ReduceMerge(dfs, lo, mid), ReduceMerge(dfs, mid + 1, hi))

\* reduce(lambda df1, df2: df1.merge(df2, ...), dfs) for a non-empty dfs
Reduce(dfs) == ReduceMerge(dfs, 1, Len(dfs))

\* The records of a merged frame inside [start_date, end_date] as dicts whose
\* keys are 'indice_tiempo' and the keys of coin_dfs, reversed at the end
PivotRowsNotReversed(cols, merged, start_date, end_date) ==
    Concat([i \in 1..Len(merged) |->
        IF start_date <= merged[i].d.day /\ merged[i].d.day <= end_date
        THEN << <<E(IndiceTiempo, merged[i].d)>> \o
                Tuple([c \in 1..Len(cols) |-> E(cols[c], merged[i].vals[c])]) >>
        ELSE <<>>])
PivotRows(cols, merged, start_date, end_date) ==
    Reverse(Concat([i \in 1..Len(merged) |->
        IF start_date <= merged[i].d.day /\ merged[i].d.day <= end_date
        THEN << <<E(IndiceTiempo, merged[i].d)>> \o
                Tuple([c \in 1..Len(cols) |-> E(cols[c], merged[i].vals[c])]) >>
        ELSE <<>>]))

\* coin_dfs[fam] of BCRASMLScraper.parse_from_intermediate_panel: a column per
\* type of every configured coin (an empty one is kept)
SMLCoinDfs(df, coinKeys, fam) ==
    IF \E i \in 1..Len(coinKeys) : coinKeys[i] = fam
    THEN Tuple([t \in 1..Len(SMLTypes(fam)) |->
            [name |-> SMLTypes(fam)[t],
             df |-> Series(df, Tuple([i \in 1..Len(df) |->
                              /\ df[i].type = SMLTypes(fam)[t]
                              /\ df[i].coin = fam]))]])
    ELSE <<>>

\* The columns of coin_dfs[fam] of BCRATCEScraper.parse_from_intermediate_panel
\* in insertion order; an empty one is deleted
TCEColumnSpecs(ents) ==
    Concat([e \in 1..Len(ents) |->
        Concat([ch \in 1..2 |->
            Concat([fl \in 1..2 |->
                [h \in 1..3 |->
                    [entity |-> ents[e],
                     channel |-> <<"mostrador", "electronico">>[ch],
                     flow |-> <<"compra", "venta">>[fl],
                     hour |-> <<"11hs", "13hs", "15hs">>[h]]]])])])

\* df['entity'] == entity compares the stored text with the whole entity key
SameText(stored, key) == <<stored>> = key

TCECoinDfs(df, coinKeys, ents, fam) ==
    IF \E i \in 1..Len(coinKeys) : coinKeys[i] = fam
    THEN LET specs == TCEColumnSpecs(ents)
             all == Tuple([s \in 1..Len(specs) |->
                       [name |-> TCEFieldName(fam, specs[s].entity, specs[s]),
                        df |-> Series(df, Tuple([i \in 1..Len(df) |->
                                  /\ df[i].coin = fam
                                  /\ SameText(df[i].entity, specs[s].entity)
                                  /\ df[i].channel = specs[s].channel
                                  /\ df[i].flow = specs[s].flow
                                  /\ df[i].hour = specs[s].hour]))]])
         IN  SelectSeq(all, LAMBDA c : c.df # <<>>)
    ELSE <<>>

CoinDfs(drv, df, coinKeys, ents, fam) ==
    IF drv = "sml" THEN SMLCoinDfs(df, coinKeys, fam)
    ELSE TCECoinDfs(df, coinKeys, ents, fam)

\* reduce() of an empty coin_dfs[fam].values() raises TypeError
PivotRaises(drv, df, coinKeys, ents) ==
    /\ df # <<>>
    /\ \E f \in 1..2 : CoinDfs(drv, df, coinKeys, ents, Families(drv)[f]) = <<>>

\* parse_from_intermediate_panel of the driver, on the frame that was read
Pivot(drv, df, coinKeys, ents, start_date, end_date) ==
    LET rowsOf(fam) ==
            IF df = <<>> THEN <<>>
            ELSE LET cds == CoinDfs(drv, df, coinKeys, ents, fam)
                 IN  PivotRows(Tuple([c \in 1..Len(cds) |-> cds[c].name]),
                               Reduce(Tuple([c \in 1..Len(cds) |-> cds[c].df])),
                               start_date, end_date)
    IN  (Families(drv)[1] :> rowsOf(Families(drv)[1])) @@
        (Families(drv)[2] :> rowsOf(Families(drv)[2]))

\* ---------------------------------------------------------------- state
VARIABLES
    driver,                  \* "sml" (BCRASMLScraper) or "tce" (BCRATCEScraper)
    coins,                   \* self.coins: the coin keys in configuration order
    entities,                \* self.entities: the entity keys, in order
    tries,                   \* self.tries
    use_intermediate_panel,  \* self.use_intermediate_panel
    intermediate_panel_path, \* self.intermediate_panel_path
    chromedriver,            \* which("chromedriver") finds the browser driver
    browser_driver,          \* self.browser_driver: "None" or "driver"
    createCalls,             \* calls of _create_browser_driver on this instance
    files,                   \* the file system: path -> [exists, rows]
    pc,                      \* "idle", "fetching" (inside fetch_contents),
                             \* "returned" or "raised" (how the last run ended)
    start_date,              \* the arguments of the run
    end_date,
    contents,                \* the local contents of fetch_contents
    calls,                   \* history: the calls of fetch_content of this run
    result,                  \* the value run returned
    error,                   \* the exception run raised
    dropped,                 \* history: the last write of the panel removed a
                             \* row the file held before
    cli                      \* the command line: the command, the content of
                             \* the file of --config, the flag, the scraper
                             \* the command made and what it printed

config == <<driver, coins, entities, tries, use_intermediate_panel,
            intermediate_panel_path, chromedriver, cli>>
vars == <<driver, coins, entities, tries, use_intermediate_panel,
          intermediate_panel_path, chromedriver, browser_driver, createCalls,
          files, pc, start_date, end_date, contents, calls, result, error,
          dropped, cli>>

Paths(drv) == {PanelFileRead(drv), "panel.csv"}

Absent == [exists |-> FALSE, rows |-> <<>>]
Written(rows) == [exists |-> TRUE, rows |-> rows]

Range(s) == {s[i] : i \in 1..Len(s)}

EmptyResult(drv) == (Families(drv)[1] :> <<>>) @@ (Families(drv)[2] :> <<>>)

NoError == [type |-> "", msg |-> "", coin |-> "", day |-> 0]

\* The scraper used as a library: no command of the command line is running
NoCli == [command |-> "", file |-> [json |-> TRUE, sections |-> <<>>],
          flag |-> FALSE, scraper |-> "None", ran |-> FALSE, echoed |-> <<>>]

CoinSets(drv) ==
    IF drv = "sml" THEN {<<"peso_uruguayo", "real">>, <<"real">>}
    ELSE {<<"dolar", "euro">>, <<"dolar">>}

EntitySets(drv) == IF drv = "sml" THEN {<<>>} ELSE {<< <<"galicia">> >>}

\* The entity keys a configuration may also give: a key with a "_" in it
EntityKeySets(drv) ==
    EntitySets(drv) \cup (IF drv = "sml" THEN {} ELSE {<< <<"banco", "nacion">> >>})

\* The pages the site serves: for SML a table with one row per day or a page
\* without the table, for TCE a table with one row per entity.
Pages(drv, ents) ==
    IF drv = "sml"
    THEN {Page("ok", Days, BaseA), Page("ok", {1}, BaseB), Page("notable", {}, <<>>)}
    ELSE {Page("ok", {ents[i] : i \in 1..Len(ents)}, BaseA)}

\* BCRAScraper.__init__ and the driver's __init__
Init ==
    /\ driver \in {"sml", "tce"}
    /\ coins \in CoinSets(driver)
    /\ entities \in EntitySets(driver)
    /\ tries \in 0..MaxTries
    /\ use_intermediate_panel \in BOOLEAN
    /\ intermediate_panel_path \in Paths(driver)
    /\ chromedriver \in BOOLEAN
    /\ browser_driver = "None"
    /\ createCalls = 0
    /\ files = [p \in Paths(driver) |-> Absent]
    /\ pc = "idle"
    /\ start_date = 1
    /\ end_date = 1
    /\ contents = <<>>
    /\ calls = <<>>
    /\ result = EmptyResult(driver)
    /\ error = NoError
    /\ dropped = FALSE
    /\ cli = NoCli

\* The units of work of fetch_contents, in order: the coins for SML (the
\* dates are not looked at), every coin of every day of the range for TCE.
Units(drv, coinKeys, s, e) ==
    IF drv = "sml"
    THEN Tuple([i \in 1..Len(coinKeys) |-> [coin |-> coinKeys[i], day |-> 0]])
    ELSE Concat([n \in 1..((e - s) + 1) |->
            [i \in 1..Len(coinKeys) |-> [coin |-> coinKeys[i], day |-> s + (n - 1)]]])

\* parse_contents of the driver raises
ParseContentsRaises(drv, cts, s, e) ==
    drv = "sml" /\ SMLParseContentsRaises(cts, s, e)

\* parse_contents of the driver
ParseContents(drv, cts, ents, s, e) ==
    IF drv = "sml" THEN SMLParseContents(cts, s, e) ELSE TCEParseContents(cts, ents)

\* write_intermediate_panel: open(path, 'w') truncates, then header and rows
WriteIntermediatePanelAppending(fs, path, rows) ==
    [fs EXCEPT ![path] = Written(fs[path].rows \o rows)]
WriteIntermediatePanel(fs, path, rows) == [fs EXCEPT ![path] = Written(rows)]

\* read_intermediate_panel_dataframe: the frame, or FileNotFoundError turned
\* into InvalidConfigurationError when the file is not there
ReadIntermediatePanelLenient(fs, drv) ==
    IF fs[PanelFileRead(drv)].exists THEN fs[PanelFileRead(drv)] ELSE Written(<<>>)
ReadIntermediatePanel(fs, drv) == fs[PanelFileRead(drv)]

\* The rest of run once fetch_contents has returned cts: parse_contents,
\* _preprocess_rows, save_intermediate_panel, return parsed.
FinishRunSavingUnprocessed(cts, s, e) ==
    IF ParseContentsRaises(driver, cts, s, e)
    THEN /\ contents' = cts
         /\ pc' = "raised"
         /\ error' = [NoError EXCEPT !.type = "KeyError"]
         /\ result' = EmptyResult(driver)
         /\ UNCHANGED <<files, dropped>>
    ELSE
    \E _parsed \in {ParseContents(driver, cts, entities, s, e)} :
        /\ contents' = cts
        /\ IF PreprocessRaises(driver, _parsed)
           THEN /\ pc' = "raised"
                /\ error' = [NoError EXCEPT !.type = "InvalidOperation"]
                /\ result' = EmptyResult(driver)
                /\ UNCHANGED <<files, dropped>>
           ELSE \E parsed \in {PreprocessAll(driver, _parsed)} :
                \E rows \in {CsvRows(driver, Flatten(driver, _parsed, coins))} :
                    /\ pc' = "returned"
                    /\ error' = NoError
                    /\ result' = parsed
                    /\ files' = WriteIntermediatePanel(files, intermediate_panel_path, rows)
                    /\ dropped' = \E r \in Range(files[intermediate_panel_path].rows) :
                                     r \notin Range(files'[intermediate_panel_path].rows)
FinishRun(cts, s, e) ==
    IF ParseContentsRaises(driver, cts, s, e)
    THEN /\ contents' = cts
         /\ pc' = "raised"
         /\ error' = [NoError EXCEPT !.type = "KeyError"]
         /\ result' = EmptyResult(driver)
         /\ UNCHANGED <<files, dropped>>
    ELSE
    \E _parsed \in {ParseContents(driver, cts, entities, s, e)} :
        /\ contents' = cts
        /\ IF PreprocessRaises(driver, _parsed)
           THEN /\ pc' = "raised"
                /\ error' = [NoError EXCEPT !.type = "InvalidOperation"]
                /\ result' = EmptyResult(driver)
                /\ UNCHANGED <<files, dropped>>
           ELSE \E parsed \in {PreprocessAll(driver, _parsed)} :
                \E rows \in {CsvRows(driver, Flatten(driver, parsed, coins))} :
                    /\ pc' = "returned"
                    /\ error' = NoError
                    /\ result' = parsed
                    /\ files' = WriteIntermediatePanel(files, intermediate_panel_path, rows)
                    /\ dropped' = \E r \in Range(files[intermediate_panel_path].rows) :
                                     r \notin Range(files'[intermediate_panel_path].rows)

\* BCRAScraper.__init__ again: a new instance of the same driver on the same
\* configuration, as every invocation of the command makes one
Construct(flag) ==
    /\ pc # "fetching"
    /\ use_intermediate_panel' = flag
    /\ browser_driver' = "None"
    /\ createCalls' = 0
    /\ pc' = "idle"
    /\ start_date' = 1
    /\ end_date' = 1
    /\ contents' = <<>>
    /\ calls' = <<>>
    /\ result' = EmptyResult(driver)
    /\ error' = NoError
    /\ UNCHANGED <<driver, coins, entities, tries, intermediate_panel_path,
                   chromedriver, files, dropped, cli>>

\* run(start_date, end_date) with use_intermediate_panel: the whole call
RunCacheTruncating(s, e) ==
    /\ pc # "fetching"
    /\ use_intermediate_panel
    /\ start_date' = s
    /\ end_date' = e
    /\ contents' = <<>>
    /\ calls' = <<>>
    /\ LET f == ReadIntermediatePanel(files, driver)
       IN  IF ~f.exists
           THEN /\ pc' = "raised"
                /\ error' = [NoError EXCEPT
                                !.type = "InvalidConfigurationError",
                                !.msg = "El archivo panel no existe"]
                /\ result' = EmptyResult(driver)
           ELSE IF PivotRaises(driver, f.rows, coins, entities)
           THEN /\ pc' = "raised"
                /\ error' = [NoError EXCEPT !.type = "TypeError"]
                /\ result' = EmptyResult(driver)
           ELSE /\ pc' = "returned"
                /\ error' = NoError
                /\ result' = Pivot(driver, f.rows, coins, entities, s, e)
    /\ files' = WriteIntermediatePanel(files, PanelFileRead(driver), <<>>)
    /\ UNCHANGED <<config, browser_driver, createCalls, dropped>>
RunCache(s, e) ==
    /\ pc # "fetching"
    /\ use_intermediate_panel
    /\ start_date' = s
    /\ end_date' = e
    /\ contents' = <<>>
    /\ calls' = <<>>
    /\ LET f == ReadIntermediatePanel(files, driver)
       IN  IF ~f.exists
           THEN /\ pc' = "raised"
                /\ error' = [NoError EXCEPT
                                !.type = "InvalidConfigurationError",
                                !.msg = "El archivo panel no existe"]
                /\ result' = EmptyResult(driver)
           ELSE IF PivotRaises(driver, f.rows, coins, entities)
           THEN /\ pc' = "raised"
                /\ error' = [NoError EXCEPT !.type = "TypeError"]
                /\ result' = EmptyResult(driver)
           ELSE /\ pc' = "returned"
                /\ error' = NoError
                /\ result' = Pivot(driver, f.rows, coins, entities, s, e)
    /\ UNCHANGED <<config, browser_driver, createCalls, files, dropped>>

\* The else branch of run, up to the first call of fetch_content; the whole
\* branch when there is no unit to fetch
RunFreshBranch(s, e) ==
    /\ pc # "fetching"
    /\ Len(Units(driver, coins, s, e)) <= MaxUnits
    /\ start_date' = s
    /\ end_date' = e
    /\ calls' = <<>>
    /\ IF Units(driver, coins, s, e) = <<>>
       THEN FinishRun(<<>>, s, e)
       ELSE /\ pc' = "fetching"
            /\ error' = NoError
            /\ result' = EmptyResult(driver)
            /\ contents' = <<>>
            /\ UNCHANGED <<files, dropped>>
    /\ UNCHANGED <<config, browser_driver, createCalls>>

\* run(start_date, end_date) without use_intermediate_panel
RunFreshWhateverTheFlag(s, e) == RunFreshBranch(s, e)
RunFresh(s, e) ==
    /\ ~use_intermediate_panel
    /\ RunFreshBranch(s, e)

\* ---------------------------------------------------------------- fetching
\* The unit the next call of fetch_content is for
CurrentUnit == Units(driver, coins, start_date, end_date)[Len(calls) + 1]

\* get_browser_driver when the browser can be created
GetBrowserDriver ==
    /\ chromedriver
    /\ browser_driver' = "driver"
    /\ createCalls' = IF browser_driver = "None" THEN createCalls + 1 ELSE createCalls

\* fetch_contents after fetch_content returned fetched: SML keeps a truthy
\* fetched under its coin, TCE appends a dict that is {} for a falsy fetched;
\* after the last unit the run goes on to its end.
UnitReturnsPrepending(fetched, filled) ==
    LET u == CurrentUnit
        entry == [k |-> u.coin, v |-> fetched, day |-> u.day, filled |-> filled]
        cts == IF driver = "sml" /\ ~filled THEN contents ELSE <<entry>> \o contents
    IN  /\ UNCHANGED <<start_date, end_date>>
        /\ IF Len(calls) + 1 = Len(Units(driver, coins, start_date, end_date))
           THEN FinishRun(cts, start_date, end_date)
           ELSE /\ pc' = "fetching"
                /\ contents' = cts
                /\ UNCHANGED <<result, error, files, dropped>>
UnitReturns(fetched, filled) ==
    LET u == CurrentUnit
        entry == [k |-> u.coin, v |-> fetched, day |-> u.day, filled |-> filled]
        cts == IF driver = "sml" /\ ~filled THEN contents ELSE Append(contents, entry)
    IN  /\ UNCHANGED <<start_date, end_date>>
        /\ IF Len(calls) + 1 = Len(Units(driver, coins, start_date, end_date))
           THEN FinishRun(cts, start_date, end_date)
           ELSE /\ pc' = "fetching"
                /\ contents' = cts
                /\ UNCHANGED <<result, error, files, dropped>>

\* fetch_content raised: the exception leaves fetch_contents and run
UnitRaisesTruncating(type) ==
    LET u == CurrentUnit
    IN  /\ pc' = "raised"
        /\ error' = [type |-> type,
                     msg |-> IF type = "InvalidConfigurationError"
                             THEN "La conexion de internet ha fallado" ELSE "",
                     coin |-> IF type = "InvalidConfigurationError" /\ driver = "sml"
                              THEN u.coin ELSE "",
                     day |-> IF type = "InvalidConfigurationError" /\ driver = "tce"
                             THEN u.day ELSE 0]
        /\ result' = EmptyResult(driver)
        /\ files' = WriteIntermediatePanel(files, intermediate_panel_path, <<>>)
        /\ UNCHANGED <<contents, dropped, start_date, end_date>>
UnitRaisesKeepingRows(type) ==
    LET u == CurrentUnit
    IN  /\ pc' = "raised"
        /\ error' = [type |-> type,
                     msg |-> IF type = "InvalidConfigurationError"
                             THEN "La conexion de internet ha fallado" ELSE "",
                     coin |-> IF type = "InvalidConfigurationError" /\ driver = "sml"
                              THEN u.coin ELSE "",
                     day |-> IF type = "InvalidConfigurationError" /\ driver = "tce"
                             THEN u.day ELSE 0]
        /\ result' = PreprocessAll(driver, ParseContents(driver, contents, entities,
                                                          start_date, end_date))
        /\ UNCHANGED <<contents, files, dropped, start_date, end_date>>
UnitRaises(type) ==
    LET u == CurrentUnit
    IN  /\ pc' = "raised"
        /\ error' = [type |-> type,
                     msg |-> IF type = "InvalidConfigurationError"
                             THEN "La conexion de internet ha fallado" ELSE "",
                     coin |-> IF type = "InvalidConfigurationError" /\ driver = "sml"
                              THEN u.coin ELSE "",
                     day |-> IF type = "InvalidConfigurationError" /\ driver = "tce"
                             THEN u.day ELSE 0]
        /\ result' = EmptyResult(driver)
        /\ UNCHANGED <<contents, files, dropped, start_date, end_date>>

\* The record of one call of fetch_content
Call(attempts, timeouts, warned, last, status, content) ==
    [coin |-> CurrentUnit.coin, day |-> CurrentUnit.day, attempts |-> attempts,
     timeouts |-> timeouts, warnings |-> warned, last |-> last,
     status |-> status, content |-> content]

\* fetch_content, first pass of the loop: the page loads, the coin is among
\* the options, the form is sent and page_source is taken; break.
FetchOk(page) ==
    /\ pc = "fetching"
    /\ 1 <= tries
    /\ GetBrowserDriver
    /\ calls' = Append(calls, Call(1, 0, 0, "ok", "returned", page))
    /\ UnitReturns(page, TRUE)
    /\ UNCHANGED config

\* fetch_content, first pass of the loop: the page loads and the coin is not
\* among the options; nothing is selected, content stays empty; break.
FetchCoinAbsentRaising ==
    /\ pc = "fetching"
    /\ 1 <= tries
    /\ GetBrowserDriver
    /\ calls' = Append(calls, Call(1, 0, 0, "absent", "raised", NoContent))
    /\ UnitRaises("InvalidConfigurationError")
    /\ UNCHANGED config
FetchCoinAbsent ==
    /\ pc = "fetching"
    /\ 1 <= tries
    /\ GetBrowserDriver
    /\ calls' = Append(calls, Call(1, 0, 0, "absent", "returned", NoContent))
    /\ UnitReturns(NoContent, FALSE)
    /\ UNCHANGED config

\* fetch_content, first pass of the loop: TimeoutException. With counter <
\* tries the handler warns and adds one to counter, and the break that follows
\* the try statement leaves the loop, so the empty content is returned; with
\* counter = tries the handler warns and raises.
FetchTimeout ==
    LET counter == 1
    IN  /\ pc = "fetching"
        /\ counter <= tries
        /\ GetBrowserDriver
        /\ IF counter < tries
           THEN /\ calls' = Append(calls, Call(1, 1, 1, "timeout", "returned", NoContent))
                /\ UnitReturns(NoContent, FALSE)
           ELSE /\ calls' = Append(calls, Call(1, 1, 1, "timeout", "raised", NoContent))
                /\ UnitRaises("InvalidConfigurationError")
        /\ UNCHANGED config

\* fetch_content, first pass of the loop: NoSuchElementException
FetchNoSuchElementSwallowed ==
    /\ pc = "fetching"
    /\ 1 <= tries
    /\ GetBrowserDriver
    /\ calls' = Append(calls, Call(1, 0, 0, "nosuch", "returned", NoContent))
    /\ UnitReturns(NoContent, FALSE)
    /\ UNCHANGED config
FetchNoSuchElement ==
    /\ pc = "fetching"
    /\ 1 <= tries
    /\ GetBrowserDriver
    /\ calls' = Append(calls, Call(1, 0, 0, "nosuch", "raised", NoContent))
    /\ UnitRaises("InvalidConfigurationError")
    /\ UNCHANGED config

\* fetch_content when chromedriver is not on the PATH: _create_browser_driver
\* returns None and browser_driver.get raises AttributeError
FetchNoBrowser ==
    /\ pc = "fetching"
    /\ 1 <= tries
    /\ ~chromedriver
    /\ browser_driver = "None"
    /\ createCalls < MaxCreate
    /\ createCalls' = createCalls + 1
    /\ browser_driver' = "None"
    /\ calls' = Append(calls, Call(1, 0, 0, "nobrowser", "raised", NoContent))
    /\ UnitRaises("AttributeError")
    /\ UNCHANGED config

\* fetch_content with tries < 1: the loop is not entered
FetchNoAttemptTryingOnce ==
    /\ pc = "fetching"
    /\ tries < 1
    /\ GetBrowserDriver
    /\ calls' = Append(calls, Call(1, 1, 1, "timeout", "returned", NoContent))
    /\ UnitReturns(NoContent, FALSE)
    /\ UNCHANGED config
FetchNoAttempt ==
    /\ pc = "fetching"
    /\ tries < 1
    /\ calls' = Append(calls, Call(0, 0, 0, "none", "returned", NoContent))
    /\ UnitReturns(NoContent, FALSE)
    /\ UNCHANGED <<config, browser_driver, createCalls>>

Next ==
    \/ \E flag \in BOOLEAN : Construct(flag)
    \/ \E s \in Days, e \in Days : RunCache(s, e)
    \/ \E s \in Days, e \in Days : RunFresh(s, e)
    \/ \E page \in Pages(driver, entities) : FetchOk(page)
    \/ FetchCoinAbsent
    \/ FetchTimeout
    \/ FetchNoSuchElement
    \/ FetchNoBrowser
    \/ FetchNoAttempt

Spec == Init /\ [][Next]_vars

TypeOK ==
    /\ pc \in {"idle", "fetching", "returned", "raised"}
    /\ tries \in 0..MaxTries
    /\ Len(calls) \in 0..MaxUnits

\* The contents fetch_contents has gathered from the calls cs of fetch_content
FetchedContents(drv, cs) ==
    Concat([i \in 1..Len(cs) |->
        IF cs[i].status # "returned" THEN <<>>
        ELSE IF drv = "sml" /\ cs[i].content = NoContent THEN <<>>
        ELSE << [k |-> cs[i].coin, v |-> cs[i].content, day |-> cs[i].day,
                 filled |-> cs[i].content # NoContent] >>])

\* The rows of a returned value, both families
ResultRows(r) == r[Families(driver)[1]] \o r[Families(driver)[2]]

\* ---------------------------------------------------------------- C1
\* C1: with use_intermediate_panel true a run makes no call of fetch_content,
\* is never inside fetch_contents and creates no browser; the value it returns
\* is the pivot of the panel file it read, for the dates it was given.
C1_CacheModeNeverFetches ==
    use_intermediate_panel =>
        /\ pc # "fetching"
        /\ calls = <<>>
        /\ contents = <<>>
        /\ createCalls = 0
        /\ browser_driver = "None"
        /\ pc = "returned" =>
              result = Pivot(driver, ReadIntermediatePanel(files, driver).rows,
                             coins, entities, start_date, end_date)

\* A cache-mode run that returned rows
C1_Witness ==
    /\ use_intermediate_panel
    /\ pc = "returned"
    /\ ResultRows(result) # <<>>

\* ---------------------------------------------------------------- C2
\* C2: when a run without use_intermediate_panel returns, the value returned
\* is the normalization of what parse_contents made of the contents fetched
\* by this run's calls, and the file at intermediate_panel_path holds exactly
\* the flattening of the returned rows, as the csv writer prints it.
C2_FreshRunReturnsParsedAndSavesFlattening ==
    (~use_intermediate_panel /\ pc = "returned") =>
        /\ contents = FetchedContents(driver, calls)
        /\ \A _parsed \in {ParseContents(driver, contents, entities,
                                          start_date, end_date)} :
              result = PreprocessAll(driver, _parsed)
        /\ \A points \in {Flatten(driver, result, coins)} :
              files[intermediate_panel_path] = Written(CsvRows(driver, points))

\* A fresh run that returned rows and wrote their points
C2_Witness ==
    /\ ~use_intermediate_panel
    /\ pc = "returned"
    /\ ResultRows(result) # <<>>
    /\ files[intermediate_panel_path].rows # <<>>

\* ---------------------------------------------------------------- C3
\* The rows the file at intermediate_panel_path holds for the returned value r
PointsOf(r) == Range(CsvRows(driver, Flatten(driver, r, coins)))

\* C3: a step that completes a run without use_intermediate_panel leaves in
\* the file at intermediate_panel_path only rows that are points of the rows
\* this run returned; a row the file held before that is not one of them is
\* no longer in the file, whatever the file held.
C3_FullOverwrite ==
    [][(~use_intermediate_panel /\ pc' = "returned") =>
          \A points \in {PointsOf(result')} :
              /\ Range(files'[intermediate_panel_path].rows) \subseteq points
              /\ \A r \in Range(files[intermediate_panel_path].rows) :
                    r \notin points =>
                        r \notin Range(files'[intermediate_panel_path].rows)]_vars

\* A fresh run completed and replaced rows of an earlier run by its own
C3_Witness ==
    /\ ~use_intermediate_panel
    /\ pc = "returned"
    /\ dropped
    /\ files[intermediate_panel_path].rows # <<>>

\* ---------------------------------------------------------------- C4
\* C4 as the specification states it: a row once in a panel file is in it
\* after every step.
C4_NoPointEverDeleted ==
    [][\A p \in DOMAIN files :
          Range(files[p].rows) \subseteq Range(files'[p].rows)]_vars

\* C4 as the code has it: a row leaves a panel file only in a step that
\* completes a run without use_intermediate_panel, and that step leaves in the
\* file exactly the points of the rows the run returned; a cache-mode run, a
\* run that raises and the construction of a scraper delete nothing.
C4_PointsDeletedOnlyByCompletedFreshRun ==
    [][files' # files =>
          \A p \in DOMAIN files : \A new \in {files'[p]} :
              (\E r \in Range(files[p].rows) : r \notin Range(new.rows)) =>
                  /\ ~use_intermediate_panel
                  /\ pc' = "returned"
                  /\ p = intermediate_panel_path
                  /\ \A parsed \in {result'} :
                         new = Written(CsvRows(driver,
                                   Flatten(driver, parsed, coins)))]_vars

\* A completed fresh run that fetched nothing left the panel without the rows
\* it held
C4_Witness ==
    /\ dropped
    /\ files[intermediate_panel_path] = Written(<<>>)

\* ---------------------------------------------------------------- C5
\* C5: a call of fetch_content in which k attempts timed out, 1 <= k < tries,
\* went on to attempt k + 1, which was not a timeout, logged k warnings and
\* returned what that attempt gave.
C5_RetryOnTimeout ==
    \A i \in 1..Len(calls) :
        (1 <= calls[i].timeouts /\ calls[i].timeouts < tries) =>
            /\ calls[i].attempts = calls[i].timeouts + 1
            /\ calls[i].last # "timeout"
            /\ calls[i].warnings = calls[i].timeouts
            /\ calls[i].status = "returned"

\* With tries = 2 the first attempt timed out and the call returned the empty
\* content after that one attempt
C5_Witness ==
    \E i \in 1..Len(calls) :
        /\ tries = 2
        /\ calls[i].timeouts = 1
        /\ calls[i].attempts = 1
        /\ calls[i].last = "timeout"
        /\ calls[i].status = "returned"
        /\ calls[i].content = NoContent

\* ---------------------------------------------------------------- C6
\* C6: a call of fetch_content whose every attempt timed out used its tries
\* attempts and raised InvalidConfigurationError, which names the coin (SML)
\* or the date (TCE) of the unit and ended the run.
C6_RetryExhaustionRaises ==
    \A i \in 1..Len(calls) :
        (calls[i].last = "timeout" /\ calls[i].timeouts = calls[i].attempts) =>
            /\ calls[i].attempts = tries
            /\ calls[i].status = "raised"
            /\ i = Len(calls)
            /\ pc = "raised"
            /\ error.type = "InvalidConfigurationError"
            /\ error.msg = "La conexion de internet ha fallado"
            /\ driver = "sml" => error.coin = calls[i].coin
            /\ driver = "tce" => error.day = calls[i].day

\* A run returned although the only attempt made for one of its units timed
\* out
C6_Witness ==
    /\ pc = "returned"
    /\ \E i \in 1..Len(calls) :
          calls[i].last = "timeout" /\ calls[i].attempts < tries

\* ---------------------------------------------------------------- C7
\* C7: a call of fetch_content whose attempt met NoSuchElementException made
\* that one attempt only, raised InvalidConfigurationError, and is the last
\* call of the run, which ended raising that error and returned nothing.
C7_NoSuchElementRaisesAtOnce ==
    \A i \in 1..Len(calls) :
        calls[i].last = "nosuch" =>
            /\ calls[i].attempts = 1
            /\ calls[i].status = "raised"
            /\ i = Len(calls)
            /\ pc = "raised"
            /\ error.type = "InvalidConfigurationError"
            /\ result = EmptyResult(driver)

\* NoSuchElementException on the first unit with attempts and units left
C7_Witness ==
    /\ pc = "raised"
    /\ tries > 1
    /\ Len(calls) = 1
    /\ calls[1].last = "nosuch"
    /\ Len(Units(driver, coins, start_date, end_date)) > 1

\* ---------------------------------------------------------------- C8
\* The rows of the returned value r that come from the unit of the call c: the
\* rows of the coin for SML, the rows of the coin on the day for TCE
RowsOfUnit(r, c) ==
    IF driver = "sml"
    THEN r[IF c.coin = "peso_uruguayo" THEN "peso_uruguayo" ELSE "real"]
    ELSE SelectSeq(r[c.coin], LAMBDA row : DictGet(row, IndiceTiempo).day = c.day)

\* C8: a call of fetch_content that found the coin missing among the options
\* made one attempt, returned the empty content and raised nothing; the run
\* went on to the next unit, an error of the run is not of this call, and a
\* run that returned has no row from that unit.
C8_AbsentCoinGivesEmptyContent ==
    \A i \in 1..Len(calls) :
        calls[i].last = "absent" =>
            /\ calls[i].attempts = 1
            /\ calls[i].warnings = 0
            /\ calls[i].status = "returned"
            /\ calls[i].content = NoContent
            /\ i < Len(Units(driver, coins, start_date, end_date)) =>
                  (pc = "fetching" \/ Len(calls) > i)
            /\ (pc = "raised" /\ error.type = "InvalidConfigurationError") =>
                  i < Len(calls)
            /\ pc = "returned" => RowsOfUnit(result, calls[i]) = <<>>

\* A run returned rows of other units after a unit found its coin missing
C8_Witness ==
    /\ pc = "returned"
    /\ ResultRows(result) # <<>>
    /\ \E i \in 1..Len(calls) : calls[i].last = "absent" /\ i < Len(calls)

\* ---------------------------------------------------------------- C9
\* C9: a run without use_intermediate_panel on a range with start_date after
\* end_date makes no call of fetch_content and returns no row.
C9_EmptyRangeFetchesNothing ==
    (~use_intermediate_panel /\ pc # "idle" /\ start_date > end_date) =>
        /\ calls = <<>>
        /\ pc = "returned"
        /\ result = EmptyResult(driver)

\* The SML driver fetched a coin on a range with start_date after end_date
C9_Witness ==
    /\ driver = "sml"
    /\ ~use_intermediate_panel
    /\ start_date > end_date
    /\ Len(calls) >= 1
    /\ calls[1].last = "ok"

\* ---------------------------------------------------------------- C10
\* C10: a cache-mode run that ended while the file the reader opens is not
\* there raised InvalidConfigurationError 'El archivo panel no existe',
\* returned no row and made no call of fetch_content.
C10_MissingPanelRaises ==
    (/\ use_intermediate_panel
     /\ pc \in {"returned", "raised"}
     /\ ~files[PanelFileRead(driver)].exists) =>
        /\ pc = "raised"
        /\ error.type = "InvalidConfigurationError"
        /\ error.msg = "El archivo panel no existe"
        /\ result = EmptyResult(driver)
        /\ calls = <<>>
        /\ createCalls = 0

\* A cache-mode run raised for the missing file although a fresh run had
\* written the panel at intermediate_panel_path
C10_Witness ==
    /\ use_intermediate_panel
    /\ pc = "raised"
    /\ error.msg = "El archivo panel no existe"
    /\ ~files[PanelFileRead(driver)].exists
    /\ files[intermediate_panel_path].exists

\* ---------------------------------------------------------------- C11
\* The panel file the reader opens holds a point of the family fam
PanelHasPointOf(fam) ==
    \E r \in Range(files[PanelFileRead(driver)].rows) : r.coin = fam

\* C11: a cache-mode run that ended on a panel that is not empty and holds no
\* point of one of the driver's two families returned, with the empty list for
\* that family; it did not raise.
C11_AbsentSeriesDegradeSilently ==
    \A f \in 1..2 :
        (/\ use_intermediate_panel
         /\ pc \in {"returned", "raised"}
         /\ files[PanelFileRead(driver)].rows # <<>>
         /\ ~PanelHasPointOf(Families(driver)[f])) =>
            /\ pc = "returned"
            /\ result[Families(driver)[f]] = <<>>

\* A cache-mode run raised TypeError on a panel that holds points of one
\* family only
C11_Witness ==
    /\ use_intermediate_panel
    /\ pc = "raised"
    /\ error.type = "TypeError"
    /\ files[PanelFileRead(driver)].rows # <<>>
    /\ \E f \in 1..2 : ~PanelHasPointOf(Families(driver)[f])

\* ---------------------------------------------------------------- panels
\* The columns of a panel file of the driver: a (coin, type) pair for SML, a
\* (coin, entity, channel, flow, hour) tuple for TCE, in schema order
PanelColumns(drv, coinKeys, ents) ==
    IF drv = "sml"
    THEN Concat([c \in 1..Len(coinKeys) |->
            [t \in 1..Len(SMLTypes(coinKeys[c])) |->
                [coin |-> coinKeys[c], type |-> SMLTypes(coinKeys[c])[t]]]])
    ELSE Concat([c \in 1..Len(coinKeys) |->
            Concat([e \in 1..Len(ents) |->
                [i \in 1..Len(TCEFields) |->
                    [coin |-> coinKeys[c], entity |-> ents[e][1],
                     channel |-> TCEFields[i].channel, flow |-> TCEFields[i].flow,
                     hour |-> TCEFields[i].hour]]])])

\* The n-th line a panel file holds for the column number c, dated d: its
\* value is the text n.cc
PanelPoint(drv, col, c, n, d) ==
    LET text == <<DigitOf(n), ".", DigitOf(c \div 10), DigitOf(c % 10)>>
    IN  IF drv = "sml"
        THEN [indice_tiempo |-> IsoStr(d), coin |-> col.coin, type |-> col.type,
              value |-> StrV(text)]
        ELSE [indice_tiempo |-> IsoStr(d), coin |-> col.coin, entity |-> col.entity,
              channel |-> col.channel, flow |-> col.flow, hour |-> col.hour,
              value |-> StrV(text)]

\* The dates of the lines of one column, in file order: at most two lines
DaySeqs == {<<>>} \cup {<<d>> : d \in Days} \cup {<<d, e>> : d \in Days, e \in Days}
DistinctDaySeqs == {q \in DaySeqs : Len(q) = 2 => q[1] # q[2]}

\* A panel file in which the column y has the lines dated special and every
\* other column the lines dated common
PanelOf(drv, cols, y, special, common) ==
    Concat([c \in 1..Len(cols) |->
        LET q == IF c = y THEN special ELSE common
        IN  [n \in 1..Len(q) |-> PanelPoint(drv, cols[c], c, n, q[n])]])

\* The panel files a cache-mode run may find: one column differs from the rest
Panels(drv, coinKeys, ents) ==
    LET cols == PanelColumns(drv, coinKeys, ents)
    IN  {PanelOf(drv, cols, y, special, common) :
            y \in {1, 2, Len(cols)}, special \in DaySeqs, common \in DistinctDaySeqs}

\* A scraper in cache mode, constructed where a panel file lies
InitPanel ==
    /\ driver \in {"sml", "tce"}
    /\ coins = Families(driver)
    /\ entities \in EntitySets(driver)
    /\ tries = 1
    /\ use_intermediate_panel = TRUE
    /\ intermediate_panel_path = PanelFileRead(driver)
    /\ chromedriver = TRUE
    /\ browser_driver = "None"
    /\ createCalls = 0
    /\ \E panel \in Panels(driver, coins, entities) :
          files = [p \in Paths(driver) |->
                      IF p = PanelFileRead(driver) THEN Written(panel) ELSE Absent]
    /\ pc = "idle"
    /\ start_date = 1
    /\ end_date = 1
    /\ contents = <<>>
    /\ calls = <<>>
    /\ result = EmptyResult(driver)
    /\ error = NoError
    /\ dropped = FALSE
    /\ cli = NoCli

NextPanel == \E s \in Days, e \in Days : RunCache(s, e)

PanelSpec == InitPanel /\ [][NextPanel]_vars

\* The fields of the schema of the family fam, as the keys of a wide row
SchemaFields(drv, fam, ents) ==
    IF drv = "sml" THEN SMLTypes(fam)
    ELSE Concat([e \in 1..Len(ents) |->
            [i \in 1..Len(TCEFields) |-> TCEFieldName(fam, ents[e], TCEFields[i])]])

\* The field a line of the panel file is a point of
PointField(drv, r) ==
    IF drv = "sml" THEN r.type
    ELSE <<"tc", "ars", r.coin, r.entity, r.channel, r.flow, r.hour>>

\* The places in the panel file the reader opens of the points of the field
\* of the family fam; PointsAt: those dated d
PointsOfField(fam, field) ==
    LET df == files[PanelFileRead(driver)].rows
    IN  {i \in 1..Len(df) : df[i].coin = fam /\ PointField(driver, df[i]) = field}
PointsAt(fam, field, d) ==
    {i \in PointsOfField(fam, field) :
        files[PanelFileRead(driver)].rows[i].indice_tiempo.day = d}

\* ---------------------------------------------------------------- C12
\* The panel has no point of the field number y of the family fam and has a
\* point of every other field of that family
FieldAloneEmpty(fam, y) ==
    LET F == SchemaFields(driver, fam, entities)
    IN  /\ PointsOfField(fam, F[y]) = {}
        /\ \A z \in 1..Len(F) : z # y => PointsOfField(fam, F[z]) # {}

\* C12: a cache-mode run that ended on a panel with no point of one field of
\* a family and a point of every other field of it emitted no row of that
\* family, whatever the dates asked for.
C12_JoinDrop ==
    \A f \in 1..2 :
        \A y \in 1..Len(SchemaFields(driver, Families(driver)[f], entities)) :
            (/\ use_intermediate_panel
             /\ pc \in {"returned", "raised"}
             /\ FieldAloneEmpty(Families(driver)[f], y)) =>
                result[Families(driver)[f]] = <<>>

\* The TCE driver returned rows of a family one field of which has no point
C12_Witness ==
    /\ driver = "tce"
    /\ use_intermediate_panel
    /\ pc = "returned"
    /\ \E f \in 1..2 :
          /\ result[Families(driver)[f]] # <<>>
          /\ \E y \in 1..Len(SchemaFields(driver, Families(driver)[f], entities)) :
                FieldAloneEmpty(Families(driver)[f], y)

\* ---------------------------------------------------------------- C13
\* C13: every row a cache-mode run returned for a family has the date and
\* every field of the family's schema as its keys, and the panel holds, for
\* that date and family, a point of every field of the schema.
C13_PivotEmitsOnlyCompleteRows ==
    (use_intermediate_panel /\ pc = "returned") =>
        \A f \in 1..2 :
            LET fam == Families(driver)[f]
                F == SchemaFields(driver, fam, entities)
            IN  \A i \in 1..Len(result[fam]) :
                    /\ Range(DictKeys(result[fam][i])) = {IndiceTiempo} \cup Range(F)
                    /\ \A y \in 1..Len(F) :
                          PointsAt(fam, F[y],
                                   DictGet(result[fam][i], IndiceTiempo).day) # {}

\* A cache-mode run returned a row that lacks a field of the schema
C13_Witness ==
    /\ use_intermediate_panel
    /\ pc = "returned"
    /\ \E f \in 1..2 :
          \E i \in 1..Len(result[Families(driver)[f]]) :
              \E y \in 1..Len(SchemaFields(driver, Families(driver)[f], entities)) :
                  ~DictHas(result[Families(driver)[f]][i],
                           SchemaFields(driver, Families(driver)[f], entities)[y])

\* ---------------------------------------------------------------- C14
\* No field of a row of the returned value w is None or ''
NoMissing(w) ==
    \A fam \in DOMAIN w : \A i \in 1..Len(w[fam]) : \A j \in 1..Len(w[fam][i]) :
        w[fam][i][j].k # IndiceTiempo => w[fam][i][j].v.kind = "Decimal"

\* The same dicts family by family, in any order: == of dicts does not look
\* at the order of the keys
SameRows(a, b) ==
    \A fam \in DOMAIN a :
        /\ Len(a[fam]) = Len(b[fam])
        /\ {Range(a[fam][i]) : i \in 1..Len(a[fam])} =
           {Range(b[fam][i]) : i \in 1..Len(b[fam])}

\* C14: when a fresh run returned rows W none of whose fields is missing, the
\* pivot of the panel lines that are the flattening of W, over the dates of
\* the run, does not raise and gives the rows of W: the same keys with the
\* same values, row order aside.
C14_FlattenPivotInverse ==
    (~use_intermediate_panel /\ pc = "returned" /\ NoMissing(result)) =>
        \A df \in {CsvRows(driver, Flatten(driver, result, coins))} :
            /\ ~PivotRaises(driver, df, coins, entities)
            /\ \A back \in {Pivot(driver, df, coins, entities,
                                  start_date, end_date)} :
                  SameRows(back, result)

\* A fresh run returned rows of both families with every field a Decimal, and
\* the pivot of their flattening gives text where the rows have a Decimal
C14_Witness ==
    /\ ~use_intermediate_panel
    /\ pc = "returned"
    /\ NoMissing(result)
    /\ \A fam \in DOMAIN result : result[fam] # <<>>
    /\ \A df \in {CsvRows(driver, Flatten(driver, result, coins))} :
          /\ ~PivotRaises(driver, df, coins, entities)
          /\ \A back \in {Pivot(driver, df, coins, entities, start_date, end_date)} :
                \E fam \in DOMAIN back : \E i \in 1..Len(back[fam]) :
                    \E j \in 1..Len(back[fam][i]) : back[fam][i][j].v.kind = "str"

\* ---------------------------------------------------------------- C15
\* The dates of the points the panel file holds for the family fam
PanelDays(fam) ==
    {r.indice_tiempo.day :
        r \in {x \in Range(files[PanelFileRead(driver)].rows) : x.coin = fam}}

\* The days of S in ascending order
AscendingDays(S) ==
    Tuple([n \in 1..Cardinality(S) |->
        CHOOSE d \in S : Cardinality({x \in S : x < d}) = n - 1])

\* C15: the rows a cache-mode run returned for a family are one row for each
\* date of the panel's points of that family with start_date <= date <=
\* end_date, both bounds included, in ascending order of date, and every
\* field of a row has the value of the panel's point of that field and date.
C15_CacheRunFiltersAndOrders ==
    (use_intermediate_panel /\ pc = "returned") =>
        \A f \in 1..2 :
            LET fam == Families(driver)[f]
                rows == result[fam]
                df == files[PanelFileRead(driver)].rows
                want == AscendingDays({d \in PanelDays(fam) :
                                          start_date <= d /\ d <= end_date})
            IN  /\ Len(rows) = Len(want)
                /\ \A i \in 1..Len(rows) :
                      /\ DictGet(rows[i], IndiceTiempo) = IsoStr(want[i])
                      /\ \A j \in 1..Len(rows[i]) :
                            rows[i][j].k # IndiceTiempo =>
                                \E p \in PointsAt(fam, rows[i][j].k, want[i]) :
                                    df[p].value = rows[i][j].v

\* A cache-mode run returned the rows of the first and of the last date of
\* its range, in that order, from a panel a fresh run wrote latest date first
C15_Witness ==
    /\ use_intermediate_panel
    /\ pc = "returned"
    /\ start_date < end_date
    /\ \E f \in 1..2 :
          LET rows == result[Families(driver)[f]]
          IN  /\ Len(rows) >= 2
              /\ DictGet(rows[1], IndiceTiempo).day = start_date
              /\ DictGet(rows[Len(rows)], IndiceTiempo).day = end_date

\* ---------------------------------------------------------------- C16
\* The rows of the returned value dated d, for the family fam
RowsDated(fam, d) ==
    {i \in 1..Len(result[fam]) : DictGet(result[fam][i], IndiceTiempo).day = d}

\* The greatest element of a set of places: the line appended last
LastOf(S) == CHOOSE i \in S : \A j \in S : j <= i

\* C16: when the panel holds several points of one field for a date of the
\* range and a family (and a point of every other field for them), a
\* cache-mode run returned one row for that date and family, and the row has,
\* for that field, the value of the point that comes last in the file.
C16_LastDuplicateWins ==
    (use_intermediate_panel /\ pc = "returned") =>
        \A f \in 1..2 : \A d \in start_date..end_date :
            LET fam == Families(driver)[f]
                F == SchemaFields(driver, fam, entities)
                df == files[PanelFileRead(driver)].rows
            IN  \A y \in 1..Len(F) :
                    (/\ Cardinality(PointsAt(fam, F[y], d)) >= 2
                     /\ \A z \in 1..Len(F) : PointsAt(fam, F[z], d) # {}) =>
                        /\ Cardinality(RowsDated(fam, d)) = 1
                        /\ \A i \in RowsDated(fam, d) :
                              DictGet(result[fam][i], F[y]) =
                                  df[LastOf(PointsAt(fam, F[y], d))].value

\* A cache-mode run returned two rows of one date for a family, one for each
\* of the two points the panel holds for one field
C16_Witness ==
    /\ use_intermediate_panel
    /\ pc = "returned"
    /\ \E f \in 1..2 : \E d \in start_date..end_date :
          LET fam == Families(driver)[f]
              F == SchemaFields(driver, fam, entities)
          IN  /\ Cardinality(RowsDated(fam, d)) = 2
              /\ \E y \in 1..Len(F) : Cardinality(PointsAt(fam, F[y], d)) = 2

\* ---------------------------------------------------------------- page shapes
\* The pages a fetch may bring: the table complete, with a part missing
\* (table, thead, tbody, header row), with a header or body row short of
\* cells, with another header text, with two header rows, with no row for the
\* date or entity, with dashes or blanks in the cells.
AllPages(drv, ents) ==
    LET all == IF drv = "sml" THEN Days ELSE {ents[i] : i \in 1..Len(ents)}
    IN  IF drv = "sml"
        THEN {Page(sh, all, BaseA) :
                sh \in {"ok", "notable", "nohead", "nobody", "noheadrow",
                        "shorthead", "shortrow", "otherhead", "twoheadrows"}}
             \cup {Page("ok", {}, BaseA), Page("ok", {1}, BaseB),
                   Page("ok", all, BaseDash), Page("ok", all, <<>>)}
        ELSE {Page(sh, all, BaseA) : sh \in {"ok", "notable", "nobody", "shortrow"}}
             \cup {Page("ok", {}, BaseA), Page("ok", all, BaseDash),
                   Page("ok", all, <<>>)}

\* A scraper without use_intermediate_panel, one coin configured
InitPage ==
    /\ driver \in {"sml", "tce"}
    /\ coins \in {<<Families(driver)[1]>>, <<Families(driver)[2]>>}
    /\ entities \in EntityKeySets(driver)
    /\ tries = 1
    /\ use_intermediate_panel = FALSE
    /\ intermediate_panel_path = PanelFileRead(driver)
    /\ chromedriver = TRUE
    /\ browser_driver = "None"
    /\ createCalls = 0
    /\ files = [p \in Paths(driver) |-> Absent]
    /\ pc = "idle"
    /\ start_date = 1
    /\ end_date = 1
    /\ contents = <<>>
    /\ calls = <<>>
    /\ result = EmptyResult(driver)
    /\ error = NoError
    /\ dropped = FALSE
    /\ cli = NoCli

\* Runs of one unit of work, the page of any shape
NextPage ==
    \/ \E s \in Days, e \in Days :
          /\ Len(Units(driver, coins, s, e)) = 1
          /\ RunFresh(s, e)
    \/ \E page \in AllPages(driver, entities) : FetchOk(page)

PageSpec == InitPage /\ [][NextPage]_vars

\* ---------------------------------------------------------------- C17
\* What parse_content returned for the entry c of contents in this run (an
\* entry that is not filled is a {} of TCE, which parse_contents skips)
ParseContentOf(c) ==
    IF driver = "sml" THEN SMLParseContent(c.v, c.k, start_date, end_date)
    ELSE TCEParseContent(c.v, IsoStr(c.day), c.k, entities)

\* The family the rows of the coin k go to
FamilyOf(k) ==
    IF driver = "sml" /\ k # "peso_uruguayo" THEN "real" ELSE k

\* The keys of a row other than the date and the coin
FieldKeys(row) == Range(DictKeys(row)) \ {IndiceTiempo, CoinKey}

\* Every field of the row is ''
AllBlank(row) ==
    \A j \in 1..Len(row) : row[j].k \notin {IndiceTiempo, CoinKey} => row[j].v = EmptyStr

\* The page has no table, or the table lacks its head or its body
LacksPart(content) ==
    content.shape \in {"empty", "notable", "nohead", "nobody", "noheadrow"}

\* C17 as the specification states it: for every page fetched by a run over
\* at least one date, parse_content returned a row, every row it returned has
\* exactly the fields of the schema as its field keys, and a page that lacks
\* the table, the head or the body gives rows whose fields are all ''.
C17_ParserTotalCoverage ==
    (~use_intermediate_panel /\ pc \in {"returned", "raised"}
        /\ start_date <= end_date) =>
        \A i \in {j \in 1..Len(contents) : contents[j].filled} :
            \A out \in {ParseContentOf(contents[i])} :
                /\ out # <<>>
                /\ \A n \in 1..Len(out) :
                      /\ FieldKeys(out[n]) =
                            Range(SchemaFields(driver, FamilyOf(contents[i].k),
                                               entities))
                      /\ LacksPart(contents[i].v) => AllBlank(out[n])

\* The rows of the SML parse_content for a page that has its parts and no
\* malformed row: one per date of the range and header row, keyed by the texts
\* of the header
SMLRowsAsParsed(c, out) ==
    LET days == start_date..end_date
    IN  /\ Len(out) = Cardinality(days) * HeadRows(c.v)
        /\ {DictGet(out[n], IndiceTiempo).day : n \in 1..Len(out)} = days
        /\ \A n \in 1..Len(out) :
              /\ Range(DictKeys(out[n])) =
                    {CoinKey, IndiceTiempo} \cup Range(HeaderTexts(c.v, c.k))
              /\ DictGet(out[n], IndiceTiempo).day \notin c.v.rows => AllBlank(out[n])

\* C17 as the code has it: the TCE parse_content returned one row for every
\* page, keyed by the date and the twelve fields of every entity, with '' for
\* every field of an entity the page has no row for; the SML parse_content
\* returned no row for a page that lacks a part or has a row short of cells,
\* and otherwise a row for every date of the range and header row, keyed by
\* the coin, the date and the header texts, all '' when the date has no row.
C17_ParserCoverageByDriver ==
    (~use_intermediate_panel /\ pc \in {"returned", "raised"}) =>
        \A i \in {j \in 1..Len(contents) : contents[j].filled} :
            \A c \in {contents[i]} : \A out \in {ParseContentOf(contents[i])} :
                IF driver = "tce"
                THEN /\ Len(out) = 1
                     /\ Range(DictKeys(out[1])) =
                           {IndiceTiempo} \cup Range(SchemaFields(driver, c.k, entities))
                     /\ DictGet(out[1], IndiceTiempo) = IsoStr(c.day)
                     /\ \A e \in 1..Len(entities) :
                           (LacksPart(c.v) \/ entities[e] \notin c.v.rows) =>
                               \A t \in 1..Len(TCEFields) :
                                   DictGet(out[1], TCEFieldName(c.k, entities[e],
                                                                TCEFields[t])) = EmptyStr
                ELSE IF \/ LacksPart(c.v)
                        \/ c.v.shape = "shorthead"
                        \/ /\ c.v.shape = "shortrow"
                           /\ \E d \in start_date..end_date : d \in c.v.rows
                THEN out = <<>>
                ELSE SMLRowsAsParsed(c, out)

\* A run ended on a page without the table: the TCE driver returned the row
\* of the date with every field None
C17_Witness ==
    /\ driver = "tce"
    /\ ~use_intermediate_panel
    /\ pc = "returned"
    /\ \E i \in 1..Len(contents) : contents[i].v.shape = "notable"
    /\ Len(ResultRows(result)) = 1
    /\ \A j \in 1..Len(ResultRows(result)[1]) :
          ResultRows(result)[1][j].k # IndiceTiempo => ResultRows(result)[1][j].v = NoneV

\* ---------------------------------------------------------------- C18
\* C18: when a run of the SML driver ended after fetching a page with no
\* table, no thead, no tbody or no header row, parse_content returned the
\* empty list for it, whatever the coin and the dates; the run returned, and
\* returned no row for the coin of that page.
C18_SMLEmptyListWithoutParts ==
    (driver = "sml" /\ ~use_intermediate_panel /\ pc \in {"returned", "raised"}) =>
        \A i \in 1..Len(contents) :
            LacksPart(contents[i].v) =>
                /\ ParseContentOf(contents[i]) = <<>>
                /\ pc = "returned"
                /\ result[FamilyOf(contents[i].k)] = <<>>

\* An SML run over two dates returned no row from a page whose thead has no
\* row
C18_Witness ==
    /\ driver = "sml"
    /\ ~use_intermediate_panel
    /\ pc = "returned"
    /\ start_date < end_date
    /\ Len(contents) = 1
    /\ contents[1].v.shape = "noheadrow"
    /\ result = EmptyResult(driver)

\* ---------------------------------------------------------------- C19
\* Parsing the entry c of contents fails partway: a header row, or a body row
\* that is matched, has fewer cells than are read
FailsPartway(c) ==
    \/ c.v.shape = "shorthead" /\ start_date <= end_date
    \/ /\ c.v.shape = "shortrow"
       /\ IF driver = "sml" THEN \E d \in start_date..end_date : d \in c.v.rows
          ELSE \E e \in 1..Len(entities) : entities[e] \in c.v.rows

\* C19: when the parsing of a fetched page failed partway, the run did not
\* raise, parse_content yielded a row for the unit, and every field of what
\* it yielded is '': no value read before the failure is left in it.
C19_MalformedGivesAllMissing ==
    (~use_intermediate_panel /\ pc \in {"returned", "raised"}) =>
        \A i \in {j \in 1..Len(contents) : contents[j].filled} :
            FailsPartway(contents[i]) =>
                /\ pc = "returned"
                /\ \A out \in {ParseContentOf(contents[i])} :
                      /\ out # <<>>
                      /\ \A n \in 1..Len(out) : AllBlank(out[n])

\* A TCE run returned, from a page whose row is short of cells, a row with
\* some fields read and the others None
C19_Witness ==
    /\ driver = "tce"
    /\ ~use_intermediate_panel
    /\ pc = "returned"
    /\ Len(contents) = 1
    /\ contents[1].v.shape = "shortrow"
    /\ Len(ResultRows(result)) = 1
    /\ \E j \in 1..Len(ResultRows(result)[1]) :
          ResultRows(result)[1][j].v.kind = "Decimal"
    /\ \E j \in 1..Len(ResultRows(result)[1]) : ResultRows(result)[1][j].v = NoneV

\* ---------------------------------------------------------------- C20
\* A field value that is the empty string or is made of dashes only
Placeholder(v) ==
    v.kind = "str" /\ \A n \in 1..Len(v.text) : v.text[n] = "-"

\* Every field of every row of the value parse_contents gave is a placeholder
OnlyPlaceholders(parsed) ==
    \A fam \in DOMAIN parsed : \A i \in 1..Len(parsed[fam]) :
        \A j \in 1..Len(parsed[fam][i]) :
            parsed[fam][i][j].k # IndiceTiempo => Placeholder(parsed[fam][i][j].v)

\* C20: when every field of the rows a fresh run parsed is the empty string
\* or a placeholder of dashes, preprocess_rows did not raise, so the run
\* returned, and every field of the rows it returned is None.
C20_NormalizerTotality ==
    (/\ ~use_intermediate_panel
     /\ pc \in {"returned", "raised"}
     /\ ~ParseContentsRaises(driver, contents, start_date, end_date)) =>
        \A _parsed \in {ParseContents(driver, contents, entities,
                                       start_date, end_date)} :
            OnlyPlaceholders(_parsed) =>
                /\ pc = "returned"
                /\ \A fam \in DOMAIN result : \A i \in 1..Len(result[fam]) :
                      \A j \in 1..Len(result[fam][i]) :
                          result[fam][i][j].k # IndiceTiempo =>
                              result[fam][i][j].v = NoneV

\* A run raised decimal.InvalidOperation on a page whose cells hold dashes
C20_Witness ==
    /\ ~use_intermediate_panel
    /\ pc = "raised"
    /\ error.type = "InvalidOperation"
    /\ Len(contents) = 1
    /\ contents[1].v.base = BaseDash

\* ---------------------------------------------------------------- C21
\* The dates of the range of the run, in the order fetch_contents and
\* parse_content go through them
RunDays == Tuple([n \in 1..((end_date - start_date) + 1) |-> start_date + (n - 1)])

\* The dates of a list of returned rows, in order
RowDates(rows) == Tuple([n \in 1..Len(rows) |-> DictGet(rows[n], IndiceTiempo)])

\* The places in contents of the pages fetched for the coin k and, for TCE,
\* the date d
PagesFor(k, d) ==
    {j \in 1..Len(contents) :
        /\ contents[j].filled
        /\ contents[j].k = k
        /\ driver = "tce" => contents[j].day = d}

\* A page fetched for the coin k has data for the date d: a body row of that
\* date for SML, a row of some entity on the page of the date for TCE
HasData(k, d) ==
    \E j \in PagesFor(k, d) :
        /\ ~LacksPart(contents[j].v)
        /\ IF driver = "sml" THEN d \in contents[j].v.rows
           ELSE \E e \in 1..Len(entities) : entities[e] \in contents[j].v.rows

\* Every field of a returned row is None
AllNone(row) == \A j \in 1..Len(row) : row[j].k # IndiceTiempo => row[j].v = NoneV

\* C21 as the specification states it: a fresh run that returned gives, for
\* every configured coin, exactly one row for every date of the range, in
\* ascending order of date, and the row of a date the page has no data for
\* has None in every field.
C21_OneRowPerDateOfRange ==
    (~use_intermediate_panel /\ pc = "returned") =>
        \A i \in 1..Len(coins) : \A rows \in {result[FamilyOf(coins[i])]} :
            /\ RowDates(rows) = Tuple([n \in 1..Len(RunDays) |-> DateObj(RunDays[n])])
            /\ \A n \in 1..Len(rows) :
                  ~HasData(coins[i], RunDays[n]) => AllNone(rows[n])

\* The row the TCE driver returned for a page: the fields of an entity the
\* page has no row for are None
TCERowOfPage(row, k, page) ==
    /\ Range(DictKeys(row)) = {IndiceTiempo} \cup Range(SchemaFields("tce", k, entities))
    /\ \A e \in 1..Len(entities) :
          (LacksPart(page) \/ entities[e] \notin page.rows) =>
              \A t \in 1..Len(TCEFields) :
                  DictGet(row, TCEFieldName(k, entities[e], TCEFields[t])) = NoneV

\* C21 as the code has it: a fresh run that returned gives, for every
\* configured coin, at most one row for a date of the range, in ascending
\* order of date. The TCE driver gives the row of a date exactly when the
\* fetch of that date and coin returned a page, and the fields of an entity
\* without a row on the page are None. The SML driver gives no row for a coin
\* whose fetch returned no page or a page that lacks the table, the head or
\* the body or has a row short of cells, and otherwise one row for every date
\* of the range, whose fields are all '' when the page has no row of that date.
C21_RowsOfFetchedPagesInDateOrder ==
    (~use_intermediate_panel /\ pc = "returned") =>
        \A i \in 1..Len(coins) : \A rows \in {result[FamilyOf(coins[i])]} :
            LET k == coins[i]
            IN  IF driver = "tce"
                THEN LET days == SelectSeq(RunDays, LAMBDA d : PagesFor(k, d) # {})
                     IN  /\ RowDates(rows) = Tuple([n \in 1..Len(days) |-> DateObj(days[n])])
                         /\ \A n \in 1..Len(rows) :
                               \A j \in PagesFor(k, days[n]) :
                                   TCERowOfPage(rows[n], k, contents[j].v)
                ELSE IF \E j \in PagesFor(k, 0) :
                            ~LacksPart(contents[j].v) /\ ~FailsPartway(contents[j])
                THEN /\ RowDates(rows) =
                            Tuple([n \in 1..Len(RunDays) |-> DateObj(RunDays[n])])
                     /\ \A n \in 1..Len(rows) : \A j \in PagesFor(k, 0) :
                            RunDays[n] \notin contents[j].v.rows => AllBlank(rows[n])
                ELSE rows = <<>>

\* A TCE run over two dates returned one row for a coin, that of the second
\* date: on the first date the coin was not among the options
C21_Witness ==
    /\ driver = "tce"
    /\ ~use_intermediate_panel
    /\ pc = "returned"
    /\ start_date < end_date
    /\ \E i \in 1..Len(coins) :
          /\ PagesFor(coins[i], start_date) = {}
          /\ PagesFor(coins[i], end_date) # {}
          /\ RowDates(result[coins[i]]) = <<DateObj(end_date)>>

\* ---------------------------------------------------------------- C22
\* C22: no step that takes a run without use_intermediate_panel into or on
\* through fetch_contents touches a file, and a step in which a call of
\* fetch_content raises ends the run raising, with no row returned for the
\* units fetched before it and every file as it was.
C22_NoPartialSuccess ==
    [][/\ (~use_intermediate_panel /\ pc' = "fetching") => files' = files
       /\ (/\ Len(calls') = Len(calls) + 1
           /\ calls'[Len(calls')].status = "raised") =>
              /\ pc' = "raised"
              /\ error'.type # ""
              /\ result' = EmptyResult(driver)
              /\ files' = files]_vars

\* A run raised at its second unit, after a first unit that fetched a page;
\* the panel still holds the rows an earlier run wrote
C22_Witness ==
    /\ ~use_intermediate_panel
    /\ pc = "raised"
    /\ Len(calls) >= 2
    /\ calls[1].content # NoContent
    /\ calls[Len(calls)].status = "raised"
    /\ result = EmptyResult(driver)
    /\ files[intermediate_panel_path].rows # <<>>

\* ---------------------------------------------------------------- C24
\* C24: every call of fetch_content loaded the page at most tries times; with
\* tries below one it loaded nothing, raised nothing and returned the empty
\* content.
C24_AttemptBound ==
    \A i \in 1..Len(calls) :
        /\ calls[i].attempts <= (IF tries < 0 THEN 0 ELSE tries)
        /\ tries <= 0 =>
              /\ calls[i].attempts = 0
              /\ calls[i].status = "returned"
              /\ calls[i].content = NoContent

\* A run with tries = 0 went through all its units without loading a page and
\* returned
C24_Witness ==
    /\ tries = 0
    /\ pc = "returned"
    /\ Len(calls) >= 2
    /\ \A i \in 1..Len(calls) : calls[i].attempts = 0
    /\ createCalls = 0

\* ---------------------------------------------------------------- wide rows
\* A wide row of the family fam for the date d, as _preprocess_rows returns
\* it: every field of the schema with a Decimal ("full") or with None
\* ("none"), or every other field only ("partial"). The SML rows end with the
\* date, the TCE rows start with it.
WideRow(drv, fam, ents, d, shape) ==
    LET F == SchemaFields(drv, fam, ents)
        kept == IF shape = "partial" THEN {j \in 1..Len(F) : j % 2 = 1} ELSE 1..Len(F)
        fields == Concat([j \in 1..Len(F) |->
                    IF j \notin kept THEN <<>>
                    ELSE IF shape = "none" THEN <<E(F[j], NoneV)>>
                    ELSE <<E(F[j], DecimalV(<<DigitOf(d), ".", DigitOf(j \div 10),
                                              DigitOf(j % 10)>>))>>])
    IN  IF drv = "sml" THEN fields \o <<E(IndiceTiempo, DateObj(d))>>
        ELSE <<E(IndiceTiempo, DateObj(d))>> \o fields

\* The lists of at most two wide rows of a family
WideRowLists(drv, fam, ents) ==
    LET rows == {WideRow(drv, fam, ents, d, shape) :
                    d \in Days, shape \in {"full", "none", "partial"}}
    IN  {<<>>} \cup {<<r>> : r \in rows} \cup {<<r1, r2>> : r1 \in rows, r2 \in rows}

\* A scraper that holds the rows of a run, before save_intermediate_panel
InitFlatten ==
    /\ driver \in {"sml", "tce"}
    /\ coins \in CoinSets(driver) \cup {Reverse(Families(driver))}
    /\ entities \in EntitySets(driver)
    /\ tries = 1
    /\ use_intermediate_panel = FALSE
    /\ intermediate_panel_path \in Paths(driver)
    /\ chromedriver = TRUE
    /\ browser_driver = "None"
    /\ createCalls = 0
    /\ files = [p \in Paths(driver) |-> Absent]
    /\ pc = "parsed"
    /\ start_date = 1
    /\ end_date = MaxDay
    /\ contents = <<>>
    /\ calls = <<>>
    /\ \E r1 \in WideRowLists(driver, Families(driver)[1], entities),
          r2 \in {<<>>, <<WideRow(driver, Families(driver)[2], entities, 1, "full")>>} :
          result = (Families(driver)[1] :> r1) @@ (Families(driver)[2] :> r2)
    /\ error = NoError
    /\ dropped = FALSE
    /\ cli = NoCli

\* save_intermediate_panel(parsed)
SaveIntermediatePanel ==
    /\ pc = "parsed"
    /\ pc' = "saved"
    /\ \E rows \in {CsvRows(driver, Flatten(driver, result, coins))} :
          files' = WriteIntermediatePanel(files, intermediate_panel_path, rows)
    /\ UNCHANGED <<config, browser_driver, createCalls, start_date, end_date,
                   contents, calls, result, error, dropped>>

NextFlatten == SaveIntermediatePanel

FlattenSpec == InitFlatten /\ [][NextFlatten]_vars

\* ---------------------------------------------------------------- C25
\* C25: the lines save_intermediate_panel wrote are, read from the last to
\* the first, one line for every field of the schema that is a key of a row,
\* None included, family after family (the configured coins in their order
\* for SML, dolar then euro for TCE), row after row, field after field; there
\* is no line when there is no row; and when the rows of a family are in
\* ascending order of date, no line of the family comes before a line of a
\* later date of that family.
C25_FlattenCountAndOrder ==
    pc = "saved" =>
        LET fams == IF driver = "sml" THEN coins ELSE TCEFamilies
            fieldsOf(fam, row) ==
                IF driver = "sml"
                THEN SelectSeq(SMLTypes(fam), LAMBDA t : DictHas(row, t))
                ELSE SelectSeq(DictKeys(row), LAMBDA k : k # IndiceTiempo)
            emitted == Concat([f \in 1..Len(fams) |->
                          Concat([i \in 1..Len(result[fams[f]]) |->
                              LET row == result[fams[f]][i]
                                  F == fieldsOf(fams[f], row)
                              IN  [j \in 1..Len(F) |->
                                      [fam |-> fams[f], field |-> F[j],
                                       day |-> DictGet(row, IndiceTiempo).day,
                                       value |-> CsvCell(DictGet(row, F[j]))]]])])
            lines == files[intermediate_panel_path].rows
            n == Len(lines)
        IN  /\ n = Len(emitted)
            /\ \A q \in 1..n :
                  /\ lines[q].coin = emitted[n + 1 - q].fam
                  /\ PointField(driver, lines[q]) = emitted[n + 1 - q].field
                  /\ lines[q].indice_tiempo = IsoStr(emitted[n + 1 - q].day)
                  /\ lines[q].value = emitted[n + 1 - q].value
            /\ (\A f \in 1..Len(fams) : result[fams[f]] = <<>>) => lines = <<>>
            /\ \A f \in 1..Len(fams) :
                  (\A i \in 1..(Len(result[fams[f]]) - 1) :
                      DictGet(result[fams[f]][i], IndiceTiempo).day <=
                          DictGet(result[fams[f]][i + 1], IndiceTiempo).day) =>
                      \A q1 \in 1..n, q2 \in 1..n :
                          (/\ q1 < q2
                           /\ lines[q1].coin = fams[f]
                           /\ lines[q2].coin = fams[f]) =>
                              lines[q1].indice_tiempo.day >= lines[q2].indice_tiempo.day

\* Two rows of ascending dates, the second with None in every field, were
\* saved latest date first, the None fields included
C25_Witness ==
    /\ pc = "saved"
    /\ \E fam \in DOMAIN result :
          LET lines == files[intermediate_panel_path].rows
          IN  /\ Len(result[fam]) = 2
              /\ DictGet(result[fam][1], IndiceTiempo).day <
                    DictGet(result[fam][2], IndiceTiempo).day
              /\ AllNone(result[fam][2])
              /\ \E q1 \in 1..Len(lines), q2 \in 1..Len(lines) :
                    /\ q1 < q2
                    /\ lines[q1].coin = fam
                    /\ lines[q1].value = EmptyStr
                    /\ lines[q1].indice_tiempo.day =
                          DictGet(result[fam][2], IndiceTiempo).day
                    /\ lines[q2].coin = fam
                    /\ lines[q2].indice_tiempo.day =
                          DictGet(result[fam][1], IndiceTiempo).day

\* ---------------------------------------------------------------- C26
\* C26: on one instance _create_browser_driver is called at most once, not
\* before the first call of fetch_content that loads the page, and the
\* handle it gave is the one held from then on.
C26_BrowserCreatedAtMostOnce ==
    /\ createCalls <= 1
    /\ createCalls = 1 <=> browser_driver = "driver"
    /\ (pc = "idle" \/ use_intermediate_panel \/ tries < 1) => createCalls = 0

\* Two calls of fetch_content on one instance called _create_browser_driver
\* twice: chromedriver is not on the PATH and no handle is held
C26_Witness ==
    /\ ~chromedriver
    /\ createCalls = 2
    /\ browser_driver = "None"
    /\ pc = "raised"
    /\ error.type = "AttributeError"

\* ---------------------------------------------------------------- C27
\* C27: a step that ends a run with use_intermediate_panel, whether the run
\* returns rows, returns empty lists or raises, leaves every file as it was.
C27_CacheRunLeavesPanelUnchanged ==
    [][(use_intermediate_panel /\ pc' \in {"returned", "raised"}) =>
          files' = files]_vars

\* A cache-mode run returned empty lists from a panel that holds rows, all of
\* dates outside the range asked for
C27_Witness ==
    /\ use_intermediate_panel
    /\ pc = "returned"
    /\ result = EmptyResult(driver)
    /\ files[PanelFileRead(driver)].rows # <<>>

\* ---------------------------------------------------------------- C28
\* C28: when a cache-mode run ended and a completed fresh run had written the
\* file at intermediate_panel_path, the run read that file: it did not raise
\* for a missing panel, and the rows it returned are the pivot of the lines
\* that file holds.
C28_CacheRunReadsTheFileWritten ==
    (/\ use_intermediate_panel
     /\ pc \in {"returned", "raised"}
     /\ files[intermediate_panel_path].exists) =>
        /\ error.msg # "El archivo panel no existe"
        /\ pc = "returned" =>
              \A df \in {files[intermediate_panel_path].rows} :
                  /\ ~PivotRaises(driver, df, coins, entities)
                  /\ result = Pivot(driver, df, coins, entities, start_date, end_date)

\* A fresh run persisted its points at the configured path, which is not the
\* path the reader opens, and the cache-mode run that followed raised
C28_Witness ==
    /\ use_intermediate_panel
    /\ pc = "raised"
    /\ error.type = "InvalidConfigurationError"
    /\ intermediate_panel_path # PanelFileRead(driver)
    /\ files[intermediate_panel_path].rows # <<>>

\* ---------------------------------------------------------------- C29
\* C29: no panel file holds two lines of one identity, that is two lines that
\* agree in everything but the value: date, coin and type for SML; date, coin,
\* entity, channel, flow and hour for TCE.
C29_PanelUniqueness ==
    \A p \in DOMAIN files : \A lines \in {files[p].rows} :
        \A q1 \in 1..Len(lines), q2 \in 1..Len(lines) :
            q1 # q2 => [lines[q1] EXCEPT !.value = NoneV] # [lines[q2] EXCEPT !.value = NoneV]

\* A completed TCE run with an entity key that holds a "_" left two lines of
\* one identity and different values in the panel
C29_Witness ==
    /\ driver = "tce"
    /\ ~use_intermediate_panel
    /\ pc = "returned"
    /\ Len(entities[1]) = 2
    /\ \E q1 \in 1..Len(files[intermediate_panel_path].rows),
          q2 \in 1..Len(files[intermediate_panel_path].rows) :
          LET lines == files[intermediate_panel_path].rows
          IN  /\ lines[q1].value # lines[q2].value
              /\ [lines[q1] EXCEPT !.value = NoneV] = [lines[q2] EXCEPT !.value = NoneV]

\* ---------------------------------------------------------------- C30
\* C30: after a completed fresh TCE run, for every row returned and every
\* configured entity key, channel, flow and hour whose field
\* tc_ars_{coin}_{entity}_{channel}_{flow}_{hour} is a key of the row, the panel
\* file holds a line of the row's date that records that coin, that entity
\* key, that channel, flow and hour.
C30_TCEFlattenKeepsFieldIdentity ==
    (driver = "tce" /\ ~use_intermediate_panel /\ pc = "returned") =>
        \A lines \in {files[intermediate_panel_path].rows} :
        \A f \in 1..Len(TCEFamilies) : \A fam \in {TCEFamilies[f]} :
        \A i \in 1..Len(result[fam]) : \A row \in {result[fam][i]} :
        \A e \in 1..Len(entities) : \A t \in 1..Len(TCEFields) :
            DictHas(row, TCEFieldName(fam, entities[e], TCEFields[t])) =>
                \E q \in 1..Len(lines) :
                    /\ lines[q].indice_tiempo = CsvCell(DictGet(row, IndiceTiempo))
                    /\ lines[q].coin = fam
                    /\ <<lines[q].entity>> = entities[e]
                    /\ lines[q].channel = TCEFields[t].channel
                    /\ lines[q].flow = TCEFields[t].flow
                    /\ lines[q].hour = TCEFields[t].hour

\* A completed fresh run with the entity key banco_nacion returned a row with
\* the field of the 11 o'clock counter purchase, and the panel line of that
\* field records the entity banco, the channel nacion and the hour compra
C30_Witness ==
    /\ driver = "tce"
    /\ ~use_intermediate_panel
    /\ pc = "returned"
    /\ entities = << <<"banco", "nacion">> >>
    /\ \E fam \in DOMAIN result : \E i \in 1..Len(result[fam]) :
          DictHas(result[fam][i], TCEFieldName(fam, entities[1], TCEFields[1]))
    /\ \E q \in 1..Len(files[intermediate_panel_path].rows) :
          LET line == files[intermediate_panel_path].rows[q]
          IN  /\ line.entity = "banco"
              /\ line.channel = "nacion"
              /\ line.flow = "mostrador"
              /\ line.hour = "compra"

\* ---------------------------------------------------------------- the command line
\* The commands of bcra_scraper.py and the key of the map each one validates
Commands == {"libor", "exchange_rates", "sml"}

MapKey(command) == IF command = "libor" THEN "rates" ELSE "coins"

\* The sections a configuration file may hold for a command: with or without
\* the url, the url empty or not, with or without either map, the map empty,
\* of one key or of two
ConfigSections ==
    LET urls == {<<>>, <<E("url", "")>>, <<E("url", "http://www.bcra.gov.ar")>>}
        maps == {<<>>} \cup
                {<<E(k, m)>> : k \in {"rates", "coins"},
                               m \in {<<>>, <<"a">>, <<"a", "b">>}}
    IN  {u \o m : u \in urls, m \in maps}

\* The contents of the file of --config: not JSON at all, JSON without the
\* section of the command, or JSON with it
ConfigFiles(command) ==
    {[json |-> FALSE, sections |-> <<>>], [json |-> TRUE, sections |-> <<>>]} \cup
    {[json |-> TRUE, sections |-> <<E(command, s)>>] : s \in ConfigSections}

\* The exception a call ends with, "" for a normal return; the messages are
\* written without their accents
Returns == [type |-> "", msg |-> ""]
Raises(type, msg) == [type |-> type, msg |-> msg]

\* read_config(file_path, command): json.load(config_data)[command]
read_config(file, command) ==
    IF ~file.json
    THEN Raises("InvalidConfigurationError", "El formato del archivo de configuracion es invalido")
    ELSE IF ~DictHas(file.sections, command) THEN Raises("KeyError", command)
    ELSE Returns

validate_url_config(conf) ==
    IF ~DictHas(conf, "url") THEN Raises("InvalidConfigurationError", "La clave url no existe") ELSE Returns

validate_url_has_valueAcceptingEmpty(conf) == Returns
validate_url_has_value(conf) ==
    IF DictGet(conf, "url") = "" THEN Raises("InvalidConfigurationError", "La url no es valida") ELSE Returns

validate_libor_rates_config(conf) ==
    IF ~DictHas(conf, "rates") THEN Raises("InvalidConfigurationError", "La clave rates no existe") ELSE Returns

validate_libor_rates_has_values(conf) ==
    LET rates == IF DictHas(conf, "rates") THEN DictGet(conf, "rates") ELSE <<>>
    IN  IF rates = <<>> THEN Raises("InvalidConfigurationError", "No existen valores para rates") ELSE Returns

validate_coins_key_config(conf) ==
    IF ~DictHas(conf, "coins") THEN Raises("InvalidConfigurationError", "La clave coins no existe") ELSE Returns

validate_coins_key_has_values(conf) ==
    LET cs == IF DictHas(conf, "coins") THEN DictGet(conf, "coins") ELSE <<>>
    IN  IF cs = <<>> THEN Raises("InvalidConfigurationError", "No existen valores para coins") ELSE Returns

\* The statements of a command up to the construction of the scraper, in
\* order, the first exception ending them: read_config, then the four
\* validations of the command
Validate(command, file) ==
    LET read == read_config(file, command)
    IN  IF read.type # "" THEN read
        ELSE LET conf == DictGet(file.sections, command)
                 steps == << validate_url_config(conf),
                             IF DictHas(conf, "url")
                             THEN validate_url_has_value(conf) ELSE Returns,
                             IF command = "libor"
                             THEN validate_libor_rates_config(conf)
                             ELSE validate_coins_key_config(conf),
                             IF command = "libor"
                             THEN validate_libor_rates_has_values(conf)
                             ELSE validate_coins_key_has_values(conf) >>
             IN  IF \E i \in 1..4 : steps[i].type # ""
                 THEN steps[CHOOSE i \in 1..4 :
                            /\ steps[i].type # ""
                            /\ \A j \in 1..(i - 1) : steps[j].type = ""]
                 ELSE Returns

\* The scraper a command makes, and the files it writes when run gave rows
ScraperOf(command) ==
    IF command = "libor" THEN "BCRALiborScraper"
    ELSE IF command = "exchange_rates" THEN "BCRAExchangeRateScraper"
    ELSE "BCRASMLScraper"

CsvOf(command) ==
    IF command = "libor" THEN {"tasas-libor.csv"}
    ELSE IF command = "exchange_rates"
    THEN {"tipos-pase-usd-series.csv", "tipos-cambio-local-series.csv"}
    ELSE {}

\* A command as the shell starts it: the file of --config of any content, the
\* flag --use-intermediate-panel given or not (sml has no such flag), nothing
\* made or printed yet
InitCli ==
    /\ driver = "sml"
    /\ coins = Families(driver)
    /\ entities = <<>>
    /\ tries = 1
    /\ use_intermediate_panel = FALSE
    /\ intermediate_panel_path = PanelFileRead(driver)
    /\ chromedriver = TRUE
    /\ browser_driver = "None"
    /\ createCalls = 0
    /\ files = [p \in UNION {CsvOf(c) : c \in Commands} \cup Paths(driver) |-> Absent]
    /\ pc = "cli"
    /\ start_date = 1
    /\ end_date = 1
    /\ contents = <<>>
    /\ calls = <<>>
    /\ result = EmptyResult(driver)
    /\ error = NoError
    /\ dropped = FALSE
    /\ \E command \in Commands, file \in UNION {ConfigFiles(c) : c \in Commands} :
       \E flag \in (IF command = "sml" THEN {FALSE} ELSE BOOLEAN) :
          cli = [NoCli EXCEPT !.command = command, !.file = file, !.flag = flag]

\* The body of a command: an InvalidConfigurationError is caught and its
\* message printed, any other exception leaves the command; with a valid
\* configuration the scraper is made and run, and libor and exchange_rates
\* write their files when the run gave rows and print that there are no
\* results when it gave none
Command(command) ==
    /\ pc = "cli"
    /\ cli.command = command
    /\ \E raised \in {Validate(command, cli.file)} :
          IF raised.type = "InvalidConfigurationError"
          THEN /\ pc' = "exited"
               /\ error' = [NoError EXCEPT !.type = raised.type, !.msg = raised.msg]
               /\ cli' = [cli EXCEPT !.echoed = Append(@, raised.msg)]
               /\ UNCHANGED files
          ELSE IF raised.type # ""
          THEN /\ pc' = "raised"
               /\ error' = [NoError EXCEPT !.type = raised.type, !.msg = raised.msg]
               /\ UNCHANGED <<cli, files>>
          ELSE \E rows \in BOOLEAN :
               /\ pc' = "exited"
               /\ error' = NoError
               /\ cli' = [cli EXCEPT
                            !.scraper = ScraperOf(command),
                            !.ran = TRUE,
                            !.echoed = IF rows \/ command = "sml" THEN @
                                       ELSE Append(@, "No se encontraron resultados")]
               /\ files' = [p \in DOMAIN files |->
                               IF rows /\ p \in CsvOf(command)
                               THEN Written(<<>>) ELSE files[p]]
    /\ UNCHANGED <<driver, coins, entities, tries, use_intermediate_panel,
                   intermediate_panel_path, chromedriver, browser_driver,
                   createCalls, start_date, end_date, contents, calls, result,
                   dropped>>

libor == Command("libor")
exchange_rates == Command("exchange_rates")
sml == Command("sml")

NextCli == libor \/ exchange_rates \/ sml

CliSpec == InitCli /\ [][NextCli]_vars

\* ---------------------------------------------------------------- C23
\* C23: when the file of --config is not JSON, or the section of the command
\* has no url, an empty url, no rates (libor) or coins (exchange_rates, sml)
\* key, or an empty map under that key, the command ends normally having
\* caught an InvalidConfigurationError and printed its message and nothing
\* else, with no scraper made, no run and no fetch, and no file written.
C23_InvalidConfigurationEndsTheCommand ==
    LET file == cli.file
        mine == {i \in 1..Len(file.sections) : file.sections[i].k = cli.command}
        lacks(key) == \A i \in mine : \A j \in 1..Len(file.sections[i].v) :
                          file.sections[i].v[j].k # key
        empty(key, e) == \E i \in mine : \E j \in 1..Len(file.sections[i].v) :
                          /\ file.sections[i].v[j].k = key
                          /\ file.sections[i].v[j].v = e
        invalid == \/ ~file.json
                   \/ /\ mine # {}
                      /\ \/ lacks("url")
                         \/ empty("url", "")
                         \/ lacks(MapKey(cli.command))
                         \/ empty(MapKey(cli.command), <<>>)
    IN  (pc \notin {"cli", "idle"} /\ cli.command # "" /\ invalid) =>
            /\ pc = "exited"
            /\ error.type = "InvalidConfigurationError"
            /\ error.msg # ""
            /\ cli.echoed = <<error.msg>>
            /\ cli.scraper = "None"
            /\ ~cli.ran
            /\ calls = <<>>
            /\ createCalls = 0
            /\ \A p \in DOMAIN files : ~files[p].exists

\* The sml command ended on a section with an empty url and a map of coins:
\* it printed that the url is not valid and made no scraper
C23_Witness ==
    /\ pc = "exited"
    /\ cli.command = "sml"
    /\ cli.file.json
    /\ cli.file.sections = <<E("sml", <<E("url", ""), E("coins", <<"a">>)>>)>>
    /\ cli.echoed = <<"La url no es valida">>
    /\ cli.scraper = "None"

====
